---- MODULE Spec2Model ----
(***************************************************************************)
(* Model of the FAT-style filesystem of the ryos kernel                    *)
(* (kernel/src/file_system/fat16.rs) driven by the shell commands of       *)
(* kernel/src/terminal/interface.rs.                                       *)
(*                                                                         *)
(* The disk is an array of sectors.  A sector holds one of five images:    *)
(*   data  : a file body; byte0 is its first byte, every other byte is 0   *)
(*   fat   : an allocation table, one raw u16 per entry                    *)
(*   dir   : the first sector of a Directory image (header and entries)    *)
(*   tail  : one of the seven following sectors of a fresh Directory image *)
(*   alloc : the SectorAllocator image written by to_bitmap                *)
(* Directory entries with an index >= NumEntries are outside the model;    *)
(* the seven tail sectors of a Directory image are carried through load    *)
(* and save as raw sector contents.                                        *)
(***************************************************************************)
EXTENDS Integers, Sequences, FiniteSets, TLC

VARIABLES disk, allocator, wd, last, ops, mark, task_manager

vars == <<disk, allocator, wd, last, ops, mark, task_manager>>

(***************************************************************************)
(* TaskManager: the task list, the index of the current task, the          *)
(* switching flag and the index of a task to delete                        *)
(***************************************************************************)
\* Option<u32>::None of the delete field
NoDelete == -1

\* TaskManager::new, and the value TASK_MANAGER starts with
TaskManager_new ==
    [tasks |-> <<>>, current_task |-> 0, switching |-> FALSE, delete |-> NoDelete]

\* TaskManager::add_task
add_task(tm, task) == [tm EXCEPT !.tasks = Append(@, task)]

\* TaskManager::delete_current, called by remove_task
delete_current(tm) == [tm EXCEPT !.delete = tm.current_task]

\* TaskManager::switch_context: the state of the CPU is saved in the slot
\* current_task, current_task moves on by one, and the state of that slot
\* is loaded
switch_context(tm) ==
    IF tm.tasks = <<>> THEN tm
    ELSE [tm EXCEPT !.current_task = (tm.current_task + 1) % Len(tm.tasks)]

\* Vec::remove(index)
RemoveAt(q, index) == SubSeq(q, 1, index) \o SubSeq(q, index + 2, Len(q))

\* TaskManager::schedule leaving current_task as it is after a removal
schedule_unadjusted(tm) ==
    IF Len(tm.tasks) <= 0 THEN tm
    ELSE IF tm.switching THEN tm
    ELSE
    LET s == switch_context([tm EXCEPT !.switching = TRUE])
        taken == [s EXCEPT !.delete = NoDelete]
        d == IF s.delete # NoDelete /\ s.delete < Len(s.tasks)
             THEN [taken EXCEPT !.tasks = RemoveAt(@, s.delete)]
             ELSE taken
    IN  [d EXCEPT !.switching = FALSE]

\* TaskManager::schedule
schedule(tm) ==
    IF Len(tm.tasks) <= 0 THEN tm
    ELSE IF tm.switching THEN tm
    ELSE
    LET s == switch_context([tm EXCEPT !.switching = TRUE])
        taken == [s EXCEPT !.delete = NoDelete]
        removed == [taken EXCEPT !.tasks = RemoveAt(@, s.delete)]
        d == IF s.delete # NoDelete /\ s.delete < Len(s.tasks)
             THEN IF removed.current_task >= Len(removed.tasks)
                  THEN [removed EXCEPT !.current_task = 0]
                  ELSE removed
             ELSE taken
    IN  [d EXCEPT !.switching = FALSE]

(***************************************************************************)
(* Program constants                                                       *)
(***************************************************************************)
FIRST_USABLE_SECTOR == 21
SECTOR_MASK == 4095
TYPE_MASK == 61440
TYPE_FREE == 0
TYPE_EOF == 4096
TYPE_BAD == 8192
TYPE_USED == 12288
FAT_MAGIC_NUMBER == 61863
DIR_ENTRY_TYPE == 16
FILE_ENTRY_TYPE == 5
FIRST_DIRECTORY == 0
DIRECTORY_MAGIC == 57005
MAGIC_SECTOR_NUMBER == 34
NameLen == 13
DirSectors == 8
SECTOR_SIZE == 512
ENTRY_COUNT == 32
\* size_of::<DirEntry>() under repr(C): filename at 0..12, first_cluster at
\* 14..15, entry_type at 16, padded to the alignment of the u16
DirEntryBytes == 18
\* the bytes of magic and fat_sector in front of the entry array
HeaderBytes == 6
BitmapCap == 254

(***************************************************************************)
(* Bounds                                                                  *)
(***************************************************************************)
\* number of entries of one allocation table (256 in the program)
FatEntries == 4
\* number of entry slots of one Directory (253 in the program)
NumEntries == 4
\* number of sectors of the modelled disk
DiskSectors == 42
\* largest number of segments of WORKING_DIR a cd may produce
MaxDepth == 2
\* largest number of commands that change the disk, the allocator or the
\* working directory in one run
MaxOps == 4
\* the same budget for the runs that build and remove directory trees
TreeOps == 9
\* the same budget for the runs inside one directory that removes itself
DotOps == 6
\* the number of mkdir d; rm d rounds behind the longest free-list
Cycles == 29
\* the number of removals and of save and load round trips of the Directory
\* of the program's size
ImageOps == 3
\* the largest sector number an allocation entry is built for
MaxEntrySector == 4200
\* how far below 2^16 the watermark of the allocator starts
WaterSpan == 12
\* the number of allocations made from a watermark
WaterOps == 3
\* the number of tasks that are created
MaxTasks == 4
\* the number of SectorAllocator calls of one run
AllocOps == 4
\* the watermark stays at or below this sector
MaxSector == 330
\* the number of steps of one run with damaged sectors
BootOps == 4

Sectors == 0 .. (DiskSectors - 1)

Min(a, b) == IF a < b THEN a ELSE b
Max(a, b) == IF a < b THEN b ELSE a

(***************************************************************************)
(* Names: strings are sequences of one-character strings                   *)
(***************************************************************************)
Dot == <<".">>
DotDot == <<".", ".">>
Slash == "/"
Xs == [i \in 1 .. NameLen |-> "x"]
LongA == Xs \o <<"1">>
LongB == Xs \o <<"2">>

\* the argument strings the shell commands are tried with
Names == {Dot, DotDot, <<"d">>, <<"f">>, LongA}

\* the argument strings of the runs that build and remove directory trees
TreeFiles == {<<"f">>}
TreeDirs == {<<"d">>}

\* the file names of the runs inside one directory that removes itself
DotFiles == {<<"f">>, Dot}

\* the names the operations are probed with in the properties
ProbeNames == Names \cup {LongB, Xs, <<"g">>}

\* file bodies passed to change_data, identified by their first byte
Buffers == {1}

(***************************************************************************)
(* Sector images                                                           *)
(***************************************************************************)
DataSector(b) == [kind |-> "data", byte0 |-> b]
ZeroSector == DataSector(0)
TailSector == [kind |-> "tail"]

\* DirEntry::empty
DirEntry_empty == [filename |-> <<>>, first_cluster |-> 0, entry_type |-> FILE_ENTRY_TYPE]

\* DirEntry::new: the name is cut to the 13 bytes of the filename field
DirEntry_new(name, first_cluster, entry_type) ==
    [filename |-> SubSeq(name, 1, Min(Len(name), NameLen)),
     first_cluster |-> first_cluster,
     entry_type |-> entry_type]

\* DirEntry::to_string: the bytes of the filename field up to the first 0
to_string(e) == e.filename

\* DirEntry::is_empty
is_empty(e) == e.filename = <<>>

(***************************************************************************)
(* FATEntry                                                                *)
(***************************************************************************)
get_type(e) == e - (e % 4096)
is_free(e) == get_type(e) = TYPE_FREE
is_used(e) == get_type(e) = TYPE_USED
new_free == TYPE_FREE

\* FATEntry::new_used
new_used(sector) ==
    IF sector > SECTOR_MASK
    THEN [ok |-> FALSE, err |-> "BadSector"]
    ELSE [ok |-> TRUE, val |-> TYPE_USED + (sector % 4096)]

\* FATEntry::get_sector giving every bit of a Used entry
get_sector_unmasked(e) ==
    IF is_used(e)
    THEN [ok |-> TRUE, val |-> e]
    ELSE [ok |-> FALSE, err |-> "UnusedSector"]

\* FATEntry::get_sector
get_sector(e) ==
    IF is_used(e)
    THEN [ok |-> TRUE, val |-> e % 4096]
    ELSE [ok |-> FALSE, err |-> "UnusedSector"]

(***************************************************************************)
(* FAT                                                                     *)
(***************************************************************************)
FatIdx == 0 .. (FatEntries - 1)

\* FAT::new
FAT_new == [i \in FatIdx |-> IF i = 0 THEN FAT_MAGIC_NUMBER ELSE new_free]

\* FAT::is_valid
FAT_is_valid(fat) == fat[0] = FAT_MAGIC_NUMBER

\* the sector image of a table; a table whose bytes are those of a file
\* body is that file body
FatImage(fat) ==
    IF fat[0] < 256 /\ \A i \in FatIdx \ {0} : fat[i] = 0
    THEN DataSector(fat[0])
    ELSE [kind |-> "fat", entries |-> fat]

\* FAT::from_buffer: the sector reinterpreted as 256 u16 entries
FAT_from_buffer(c) ==
    CASE c.kind = "fat" -> c.entries
      [] c.kind = "data" -> [i \in FatIdx |-> IF i = 0 THEN c.byte0 ELSE 0]
      [] c.kind = "dir" ->
            [i \in FatIdx |-> IF i = 0 THEN c.magic % 65536
                              ELSE IF i = 1 THEN c.magic \div 65536
                              ELSE IF i = 2 THEN c.fat_sector ELSE 0]
      [] c.kind = "alloc" ->
            [i \in FatIdx |-> IF i = 0 THEN MAGIC_SECTOR_NUMBER
                              ELSE IF i = 1 THEN c.next_free
                              ELSE IF i - 1 <= Len(c.freed) THEN c.freed[i - 1] ELSE 0]
      [] OTHER -> [i \in FatIdx |-> 0]

\* FAT::load (sector = Some(s))
FAT_load(dk, s) == FAT_from_buffer(dk[s])

\* FAT::save (sector = Some(s))
FAT_save(dk, fat, s) == [dk EXCEPT ![s] = FatImage(fat)]

\* FAT::first_free_entry scanning from the last index down
first_free_entry_downwards(fat) ==
    IF \E i \in FatIdx \ {0} : is_free(fat[i])
    THEN [ok |-> TRUE,
          val |-> CHOOSE i \in FatIdx \ {0} :
                     /\ is_free(fat[i])
                     /\ \A j \in FatIdx \ {0} : is_free(fat[j]) => j <= i]
    ELSE [ok |-> FALSE, err |-> "OutOfSpace"]

\* FAT::first_free_entry
first_free_entry(fat) ==
    IF \E i \in FatIdx \ {0} : is_free(fat[i])
    THEN [ok |-> TRUE,
          val |-> CHOOSE i \in FatIdx \ {0} :
                     /\ is_free(fat[i])
                     /\ \A j \in FatIdx \ {0} : is_free(fat[j]) => i <= j]
    ELSE [ok |-> FALSE, err |-> "OutOfSpace"]

\* FAT::add_entry
FAT_add_entry(fat, entry) ==
    LET r == first_free_entry(fat)
    IN  IF r.ok THEN [ok |-> TRUE, val |-> [fat EXCEPT ![r.val] = entry]]
        ELSE r

\* FAT::remove_entry
FAT_remove_entry(fat, index) == [fat EXCEPT ![index] = new_free]

(***************************************************************************)
(* Directory                                                               *)
(***************************************************************************)
EntryIdx == 0 .. (NumEntries - 1)

\* Directory::new
Directory_new(fat_sector) ==
    [magic |-> DIRECTORY_MAGIC,
     fat_sector |-> fat_sector,
     entries |-> [i \in EntryIdx |-> DirEntry_empty],
     tail |-> [i \in 1 .. (DirSectors - 1) |-> TailSector]]

\* the first four bytes of a sector, read as the magic field of a Directory
MagicOf(c) ==
    CASE c.kind = "dir" -> c.magic
      [] c.kind = "data" -> c.byte0
      [] c.kind = "fat" -> c.entries[0] + 65536 * c.entries[1]
      [] c.kind = "alloc" -> MAGIC_SECTOR_NUMBER + 65536 * c.next_free
      [] OTHER -> 0

\* the number of bytes of slot i of the entry array that lie inside the
\* DirSectors sectors a Directory is written to and read from
SlotRoom(i) == DirSectors * SECTOR_SIZE - (HeaderBytes + DirEntryBytes * i)

\* what is left of the entry of slot i when only its bytes inside the span
\* are transferred and the rest reads as zero
Stored(e, i) ==
    IF SlotRoom(i) >= DirEntryBytes THEN e
    ELSE [filename |-> SubSeq(e.filename, 1, Min(Len(e.filename), Max(SlotRoom(i), 0))),
          first_cluster |-> IF SlotRoom(i) >= 16 THEN e.first_cluster
                            ELSE IF SlotRoom(i) = 15 THEN e.first_cluster % 256
                            ELSE 0,
          entry_type |-> IF SlotRoom(i) >= 17 THEN e.entry_type ELSE 0]

\* Directory::save: the first DirSectors sectors of the image are written to
\* the sectors that start at lba
Directory_save(dk, d, lba) ==
    [s \in Sectors |->
        IF s = lba
        THEN [kind |-> "dir", magic |-> d.magic, fat_sector |-> d.fat_sector,
              entries |-> [i \in DOMAIN d.entries |-> Stored(d.entries[i], i)]]
        ELSE IF s > lba /\ s < lba + DirSectors THEN d.tail[s - lba]
        ELSE dk[s]]

\* Directory::load returning what the sector holds whatever its magic is
Directory_load_unchecked(dk, lba, root) ==
    LET head == dk[lba]
    IN  [ok |-> TRUE,
         val |-> [magic |-> MagicOf(head),
                  fat_sector |-> IF root THEN FIRST_USABLE_SECTOR - 1
                                 ELSE IF head.kind = "dir" THEN head.fat_sector ELSE 0,
                  entries |-> IF head.kind = "dir" THEN head.entries
                              ELSE [i \in EntryIdx |-> DirEntry_empty],
                  tail |-> [i \in 1 .. (DirSectors - 1) |-> dk[lba + i]]]]

\* Directory::load; root = TRUE is the call with sector = None
Directory_load(dk, lba, root) ==
    LET head == dk[lba]
    IN  IF MagicOf(head) # DIRECTORY_MAGIC
        THEN [ok |-> FALSE, err |-> "InvalidDirectory"]
        ELSE [ok |-> TRUE,
              val |-> [magic |-> head.magic,
                       fat_sector |-> IF root THEN FIRST_USABLE_SECTOR - 1
                                      ELSE head.fat_sector,
                       entries |-> head.entries,
                       tail |-> [i \in 1 .. (DirSectors - 1) |-> dk[lba + i]]]]

\* the slots of d that hold a non-empty entry called name
Matching(d, name) == {i \in DOMAIN d.entries : ~is_empty(d.entries[i]) /\ to_string(d.entries[i]) = name}

LeastOf(S) == CHOOSE i \in S : \A j \in S : i <= j

\* Directory::get_entry
Directory_get_entry(d, name) ==
    IF Matching(d, name) = {}
    THEN [ok |-> FALSE, err |-> "FileNotFound"]
    ELSE [ok |-> TRUE, val |-> d.entries[LeastOf(Matching(d, name))]]

\* Directory::add_entry taking the last empty slot
Directory_add_entry_last(d, entry) ==
    LET empty == {i \in DOMAIN d.entries : is_empty(d.entries[i])}
    IN  IF empty = {}
        THEN [ok |-> FALSE, err |-> "OutOfSpace"]
        ELSE [ok |-> TRUE,
              val |-> [d EXCEPT !.entries[CHOOSE i \in empty : \A j \in empty : j <= i] = entry]]

\* Directory::add_entry
Directory_add_entry(d, entry) ==
    LET empty == {i \in DOMAIN d.entries : is_empty(d.entries[i])}
    IN  IF empty = {}
        THEN [ok |-> FALSE, err |-> "OutOfSpace"]
        ELSE [ok |-> TRUE, val |-> [d EXCEPT !.entries[LeastOf(empty)] = entry]]

\* Directory::remove_entry
Directory_remove_entry(d, name) ==
    [d EXCEPT !.entries = [i \in DOMAIN d.entries |->
        IF to_string(d.entries[i]) = name THEN DirEntry_empty ELSE d.entries[i]]]

(***************************************************************************)
(* SectorAllocator                                                         *)
(***************************************************************************)
\* SectorAllocator::new
SectorAllocator_new == [next_free |-> FIRST_USABLE_SECTOR, freed_sectors |-> <<>>]

\* get_free_sectors taking a freed sector when the free-list is not empty
get_free_sectors_reusing(a, count) ==
    IF Len(a.freed_sectors) > 0
    THEN [alloc |-> [a EXCEPT !.freed_sectors = SubSeq(@, 1, Len(@) - 1)],
          val |-> a.freed_sectors[Len(a.freed_sectors)]]
    ELSE [alloc |-> [a EXCEPT !.next_free = (@ + count) % 65536], val |-> a.next_free]

\* SectorAllocator::get_free_sectors
get_free_sectors(a, count) ==
    LET next == (a.next_free + count) % 65536
    IN  [alloc |-> [a EXCEPT !.next_free = next],
         val |-> (next + 65536 - count) % 65536]

\* get_free_sector taking the sector that was freed first
get_free_sector_oldest(a) ==
    IF Len(a.freed_sectors) > 0
    THEN [alloc |-> [a EXCEPT !.freed_sectors = Tail(@)], val |-> Head(a.freed_sectors)]
    ELSE get_free_sectors(a, 1)

\* SectorAllocator::get_free_sector
get_free_sector(a) ==
    IF Len(a.freed_sectors) > 0
    THEN [alloc |-> [a EXCEPT !.freed_sectors = SubSeq(@, 1, Len(@) - 1)],
          val |-> a.freed_sectors[Len(a.freed_sectors)]]
    ELSE get_free_sectors(a, 1)

\* free putting the sector in front of the free-list
free_in_front(a, sector) == [a EXCEPT !.freed_sectors = <<sector>> \o @]

\* SectorAllocator::free
free(a, sector) == [a EXCEPT !.freed_sectors = Append(@, sector)]

\* free_directory returning the 7 sectors that follow the first one
free_directory_tail(a, sector) ==
    [a EXCEPT !.freed_sectors = @ \o [offset \in 1 .. 7 |-> (sector + offset) % 65536]]

\* SectorAllocator::free_directory
free_directory(a, sector) ==
    [a EXCEPT !.freed_sectors = @ \o [offset \in 1 .. 8 |-> (sector + offset - 1) % 65536]]

\* SectorAllocator::to_bitmap
to_bitmap(a) ==
    [kind |-> "alloc",
     next_free |-> a.next_free,
     freed |-> SubSeq(a.freed_sectors, 1, Min(Len(a.freed_sectors), BitmapCap))]

\* SectorAllocator::save
SectorAllocator_save(dk, a) == [dk EXCEPT ![FIRST_USABLE_SECTOR - 2] = to_bitmap(a)]

\* SectorAllocator::from_bitmap: the magic word, the watermark, then every
\* nonzero u16 of the rest of the sector
NonZero(sector) == sector # 0

\* from_bitmap that takes the watermark and the free-list from a sector
\* whatever its first two bytes are
from_bitmap_unchecked(c) ==
    LET w == FAT_from_buffer(c)
    IN  [ok |-> TRUE,
         val |-> IF c.kind = "alloc"
                 THEN [next_free |-> c.next_free,
                       freed_sectors |-> SelectSeq(c.freed, NonZero)]
                 ELSE [next_free |-> w[1],
                       freed_sectors |->
                           SelectSeq([i \in 1 .. (FatEntries - 2) |-> w[i + 1]], NonZero)]]

from_bitmap(c) ==
    IF c.kind = "alloc"
    THEN [ok |-> TRUE,
          val |-> [next_free |-> c.next_free,
                   freed_sectors |-> SelectSeq(c.freed, NonZero)]]
    ELSE LET w == FAT_from_buffer(c)
         IN  IF w[0] # MAGIC_SECTOR_NUMBER
             THEN [ok |-> FALSE, err |-> "InvalidSectorAllocator"]
             ELSE [ok |-> TRUE,
                   val |-> [next_free |-> w[1],
                            freed_sectors |->
                                SelectSeq([i \in 1 .. (FatEntries - 2) |-> w[i + 1]],
                                          NonZero)]]

\* SectorAllocator::load
SectorAllocator_load(dk) == from_bitmap(dk[FIRST_USABLE_SECTOR - 2])

(***************************************************************************)
(* Startup.  dev says whether the block device is available: Disk::read    *)
(* and Disk::write return DiskNotAvailable when it is not.                 *)
(***************************************************************************)
\* Directory::load on the device: the read comes first, and its error is
\* returned before the magic is looked at
Directory_load_on(dev, dk, lba, root) ==
    IF ~dev THEN [ok |-> FALSE, err |-> "DiskNotAvailable"]
    ELSE Directory_load(dk, lba, root)

\* FAT::load_or_create: a root table that was read and is not valid is
\* replaced by a new one; a failed read or write panics
FAT_load_or_create(dev, dk) ==
    IF ~dev THEN [res |-> "panic", disk |-> dk]
    ELSE IF FAT_is_valid(FAT_load(dk, FIRST_USABLE_SECTOR - 1))
    THEN [res |-> "Ok", disk |-> dk]
    ELSE [res |-> "Ok", disk |-> FAT_save(dk, FAT_new, FIRST_USABLE_SECTOR - 1)]

\* Directory::load_or_create_dir: a root directory that was read and is not
\* valid is replaced by a new one; a failed read or write panics
Directory_load_or_create_dir(dev, dk) ==
    IF ~dev THEN [res |-> "panic", disk |-> dk]
    ELSE IF Directory_load(dk, FIRST_DIRECTORY, TRUE).ok
    THEN [res |-> "Ok", disk |-> dk]
    ELSE [res |-> "Ok",
          disk |-> Directory_save(dk, Directory_new(FIRST_DIRECTORY), FIRST_DIRECTORY)]

\* SectorAllocator::load_or_create
SectorAllocator_load_or_create(dev, dk) ==
    LET l == SectorAllocator_load(dk)
    IN  IF ~dev THEN [res |-> "panic", disk |-> dk, alloc |-> SectorAllocator_new]
        ELSE IF l.ok THEN [res |-> "Ok", disk |-> dk, alloc |-> l.val]
        ELSE [res |-> "Ok",
              disk |-> SectorAllocator_save(dk, SectorAllocator_new),
              alloc |-> SectorAllocator_new]

\* FAtApi::new: the root table, then the root directory, then the allocator
FAtApi_new(dev, dk) ==
    LET t == FAT_load_or_create(dev, dk)
        d == Directory_load_or_create_dir(dev, t.disk)
        a == SectorAllocator_load_or_create(dev, d.disk)
    IN  IF t.res # "Ok" THEN [res |-> t.res, disk |-> t.disk, alloc |-> SectorAllocator_new]
        ELSE IF d.res # "Ok"
        THEN [res |-> d.res, disk |-> d.disk, alloc |-> SectorAllocator_new]
        ELSE a

(***************************************************************************)
(* Path resolution                                                         *)
(***************************************************************************)
RECURSIVE SplitAcc(_, _, _)
SplitAcc(s, cur, acc) ==
    LET flushed == IF cur = <<>> THEN acc ELSE Append(acc, cur)
    IN  IF s = <<>> THEN flushed
        ELSE IF Head(s) = Slash THEN SplitAcc(Tail(s), <<>>, flushed)
        ELSE SplitAcc(Tail(s), Append(cur, Head(s)), acc)

\* WORKING_DIR.split('/') with the empty parts filtered out
PathParts(w) == SplitAcc(w, <<>>, <<>>)

\* FAtApi::get_directory_table_by_name
get_directory_table_by_name(dk, directory, name) ==
    LET e == Directory_get_entry(directory, name)
    IN  IF ~e.ok THEN e
        ELSE IF e.val.entry_type # DIR_ENTRY_TYPE
        THEN [ok |-> FALSE, err |-> "DirectoryNotFound"]
        ELSE LET l == Directory_load(dk, e.val.first_cluster, FALSE)
             IN  IF ~l.ok THEN l
                 ELSE [ok |-> TRUE, val |-> [dir |-> l.val, lba |-> e.val.first_cluster]]

RECURSIVE Walk(_, _, _)
Walk(dk, cur, parts) ==
    IF parts = <<>> \/ ~cur.ok THEN cur
    ELSE Walk(dk, get_directory_table_by_name(dk, cur.val.dir, Head(parts)), Tail(parts))

\* the root directory as get_current_directory and get_parent_sector load it
RootLoad(dk) ==
    LET l == Directory_load(dk, FIRST_DIRECTORY, TRUE)
    IN  IF ~l.ok THEN l
        ELSE [ok |-> TRUE, val |-> [dir |-> l.val, lba |-> FIRST_DIRECTORY]]

\* FAtApi::get_current_directory
get_current_directory(dk, w) == Walk(dk, RootLoad(dk), PathParts(w))

\* FAtApi::get_current_fat
get_current_fat(dk, directory) == FAT_load(dk, directory.fat_sector)

\* get_parent_sector returning the LBA of the directory above the current
\* one. what its name says, instead of the LBA of the current directory
get_parent_sector_above(dk, w) ==
    LET parts == PathParts(w)
    IN  IF Len(parts) = 0 THEN [ok |-> TRUE, val |-> FIRST_DIRECTORY]
        ELSE LET above == Walk(dk, RootLoad(dk), SubSeq(parts, 1, Len(parts) - 1))
             IN  IF ~above.ok THEN above
                 ELSE [ok |-> TRUE, val |-> above.val.lba]

\* FAtApi::get_parent_sector
get_parent_sector(dk, w) ==
    LET parts == PathParts(w)
    IN  IF Len(parts) = 0 THEN [ok |-> TRUE, val |-> FIRST_DIRECTORY]
        ELSE LET last_dir == Walk(dk, RootLoad(dk), SubSeq(parts, 1, Len(parts) - 1))
             IN  IF ~last_dir.ok THEN last_dir
                 ELSE LET e == Directory_get_entry(last_dir.val.dir, parts[Len(parts)])
                      IN  IF ~e.ok THEN e
                          ELSE [ok |-> TRUE, val |-> e.val.first_cluster]

\* FAtApi::search_directory
search_directory(dk, w, name) ==
    LET cur == get_current_directory(dk, w)
    IN  IF ~cur.ok THEN cur
        ELSE LET e == Directory_get_entry(cur.val.dir, name)
             IN  IF e.ok THEN [ok |-> TRUE, val |-> e.val.entry_type = DIR_ENTRY_TYPE]
                 ELSE [ok |-> TRUE, val |-> FALSE]

(***************************************************************************)
(* FAtApi: every operation maps the disk and the in-memory allocator to    *)
(* their values at return, with res = "Ok" or the name of the error        *)
(***************************************************************************)
Ret(dk, a, res) == [disk |-> dk, alloc |-> a, res |-> res]

\* FAtApi::get_data from the point where the current directory is loaded
ReadFile(dk, dir, file_name) ==
    LET fat == get_current_fat(dk, dir)
        e == Directory_get_entry(dir, file_name)
    IN  IF ~e.ok THEN [res |-> e.err, data |-> ZeroSector]
        ELSE IF e.val.entry_type = DIR_ENTRY_TYPE
        THEN [res |-> "NotAFile", data |-> ZeroSector]
        ELSE IF e.val.first_cluster \notin FatIdx
        THEN [res |-> "panic", data |-> ZeroSector]
        ELSE LET s == get_sector(fat[e.val.first_cluster])
             IN  IF ~s.ok THEN [res |-> s.err, data |-> ZeroSector]
                 ELSE [res |-> "Ok", data |-> dk[s.val]]

\* FAtApi::get_data
get_data(dk, w, file_name) ==
    LET cur == get_current_directory(dk, w)
    IN  IF ~cur.ok THEN [res |-> cur.err, data |-> ZeroSector]
        ELSE ReadFile(dk, cur.val.dir, file_name)

\* FAtApi::change_data
change_data(dk, a, w, file_name, buffer) ==
    LET cur == get_current_directory(dk, w)
    IN  IF ~cur.ok THEN Ret(dk, a, cur.err)
        ELSE
        LET fat == get_current_fat(dk, cur.val.dir)
            e == Directory_get_entry(cur.val.dir, file_name)
        IN  IF ~e.ok THEN Ret(dk, a, e.err)
            ELSE IF e.val.entry_type = DIR_ENTRY_TYPE THEN Ret(dk, a, "NotAFile")
            ELSE IF e.val.first_cluster \notin FatIdx THEN Ret(dk, a, "panic")
            ELSE LET s == get_sector(fat[e.val.first_cluster])
                 IN  IF ~s.ok THEN Ret(dk, a, s.err)
                     ELSE Ret([dk EXCEPT ![s.val] = DataSector(buffer)], a, "Ok")

\* FAtApi::add_file
add_file(dk, a, w, name) ==
    LET cur == get_current_directory(dk, w)
    IN  IF ~cur.ok THEN Ret(dk, a, cur.err)
        ELSE IF Directory_get_entry(cur.val.dir, name).ok THEN Ret(dk, a, "FileAlreadyExists")
        ELSE
        LET fat == get_current_fat(dk, cur.val.dir)
            index == first_free_entry(fat)
        IN  IF ~index.ok THEN Ret(dk, a, index.err)
            ELSE
            LET g == get_free_sector(a)
                dk1 == SectorAllocator_save(dk, g.alloc)
                dk2 == [dk1 EXCEPT ![g.val] = ZeroSector]
                used == new_used(g.val)
            IN  IF ~used.ok THEN Ret(dk2, g.alloc, used.err)
                ELSE
                LET fat2 == FAT_add_entry(fat, used.val)
                    dir2 == Directory_add_entry(cur.val.dir,
                                DirEntry_new(name, index.val, FILE_ENTRY_TYPE))
                IN  IF ~fat2.ok THEN Ret(dk2, g.alloc, fat2.err)
                    ELSE IF ~dir2.ok THEN Ret(dk2, g.alloc, dir2.err)
                    ELSE
                    LET dk3 == FAT_save(dk2, fat2.val, cur.val.dir.fat_sector)
                        dk4 == Directory_save(dk3, dir2.val, cur.val.lba)
                    IN  Ret(dk4, g.alloc, "Ok")

\* FAtApi::new_dir
new_dir(dk, a, w, name) ==
    LET cur == get_current_directory(dk, w)
    IN  IF ~cur.ok THEN Ret(dk, a, cur.err)
        ELSE IF Directory_get_entry(cur.val.dir, name).ok THEN Ret(dk, a, "DirAlreadyExists")
        ELSE
        LET g == get_free_sectors(a, 9)
            fat_sector == g.val
            dk1 == SectorAllocator_save(dk, g.alloc)
            fat == FAT_new
            dir_sector == fat_sector + 1
            dir0 == Directory_new(fat_sector)
            dir1 == Directory_add_entry(dir0, DirEntry_new(Dot, dir_sector, DIR_ENTRY_TYPE))
            parent_sector == get_parent_sector(dk1, w)
        IN  IF ~dir1.ok THEN Ret(dk1, g.alloc, dir1.err)
            ELSE IF ~parent_sector.ok THEN Ret(dk1, g.alloc, parent_sector.err)
            ELSE
            LET dir2 == Directory_add_entry(dir1.val,
                            DirEntry_new(DotDot, parent_sector.val, DIR_ENTRY_TYPE))
            IN  IF ~dir2.ok THEN Ret(dk1, g.alloc, dir2.err)
                ELSE
                LET dk2 == FAT_save(dk1, fat, fat_sector)
                    dk3 == Directory_save(dk2, dir2.val, dir_sector)
                    parent == get_current_directory(dk3, w)
                IN  IF ~parent.ok THEN Ret(dk3, g.alloc, parent.err)
                    ELSE
                    LET p2 == Directory_add_entry(parent.val.dir,
                                  DirEntry_new(name, dir_sector, DIR_ENTRY_TYPE))
                    IN  IF ~p2.ok THEN Ret(dk3, g.alloc, p2.err)
                        ELSE Ret(Directory_save(dk3, p2.val, parent.val.lba), g.alloc, "Ok")

\* FAtApi::remove_file_by_name; directory is the pair (Directory, lba)
remove_file_by_name(dk, a, name, directory) ==
    LET e == Directory_get_entry(directory.dir, name)
    IN  IF ~e.ok THEN Ret(dk, a, e.err)
        ELSE IF e.val.entry_type # FILE_ENTRY_TYPE THEN Ret(dk, a, "NotAFile")
        ELSE IF e.val.first_cluster \notin FatIdx THEN Ret(dk, a, "panic")
        ELSE
        LET fat_index == e.val.first_cluster
            fat == get_current_fat(dk, directory.dir)
            s == get_sector(fat[fat_index])
        IN  IF ~s.ok THEN Ret(dk, a, s.err)
            ELSE
            LET a1 == free(a, s.val)
                fat1 == FAT_remove_entry(fat, fat_index)
                dk1 == FAT_save(dk, fat1, directory.dir.fat_sector)
                dir1 == Directory_remove_entry(directory.dir, name)
                dk2 == Directory_save(dk1, dir1, directory.lba)
            IN  Ret(dk2, a1, "Ok")

\* the loop of remove_dir_by_name that frees every Used sector of a table
RECURSIVE FreeUsed(_, _, _)
FreeUsed(a, fat, i) ==
    IF i = FatEntries THEN a
    ELSE IF is_used(fat[i]) THEN FreeUsed(free(a, get_sector(fat[i]).val), fat, i + 1)
    ELSE FreeUsed(a, fat, i + 1)

\* u8 bitwise not
Not8(x) == 255 - x

\* FAtApi::remove_dir_by_name; directory is the pair (Directory, lba) and the
\* result carries its in-memory value at return
RECURSIVE remove_dir_by_name(_, _, _, _)
RECURSIVE RemoveChildren(_, _, _, _, _)
remove_dir_by_name(dk, a, name, directory) ==
    LET named == {i \in EntryIdx : to_string(directory.dir.entries[i]) = name}
        entry_index == IF named = {} THEN 0 ELSE LeastOf(named)
        Out(d, al, res, dy) == [disk |-> d, alloc |-> al, res |-> res, directory |-> dy]
    IN  IF Not8(directory.dir.entries[entry_index].entry_type) = DIR_ENTRY_TYPE
        THEN Out(dk, a, "NotADirectory", directory)
        ELSE
        LET t == get_directory_table_by_name(dk, directory.dir, name)
        IN  IF ~t.ok THEN Out(dk, a, t.err, directory)
            ELSE
            LET fat0 == get_current_fat(dk, t.val.dir)
                a1 == FreeUsed(a, fat0, 0)
                fat1 == [i \in FatIdx |-> IF is_used(fat0[i]) THEN new_free ELSE fat0[i]]
                r == RemoveChildren(dk, a1, t.val, t.val.dir.entries, 0)
            IN  IF r.res # "Ok" THEN Out(r.disk, r.alloc, r.res, directory)
                ELSE
                LET dir == r.directory
                    fat2 == [fat1 EXCEPT ![0] = new_free]
                    dk1 == FAT_save(r.disk, fat2, dir.dir.fat_sector)
                    a2 == free(r.alloc, dir.dir.fat_sector)
                    dir2 == [dir.dir EXCEPT !.magic = 0]
                    dk2 == Directory_save(dk1, dir2, dir.lba)
                    directory2 == [directory.dir EXCEPT !.entries[entry_index] = DirEntry_empty]
                    dk3 == Directory_save(dk2, directory2, directory.lba)
                    a3 == free_directory(a2, dir.lba)
                IN  Out(dk3, a3, "Ok", [dir |-> directory2, lba |-> directory.lba])

\* the loop of remove_dir_by_name over a copy (iter) of the entries of dir
RemoveChildren(dk, a, dir, iter, i) ==
    IF i = NumEntries THEN [disk |-> dk, alloc |-> a, res |-> "Ok", directory |-> dir]
    ELSE IF /\ iter[i].entry_type = DIR_ENTRY_TYPE
            /\ to_string(iter[i]) # Dot
            /\ to_string(iter[i]) # DotDot
    THEN LET r == remove_dir_by_name(dk, a, to_string(iter[i]), dir)
         IN  IF r.res # "Ok" THEN r
             ELSE RemoveChildren(r.disk, r.alloc, r.directory, iter, i + 1)
    ELSE RemoveChildren(dk, a, dir, iter, i + 1)

\* FAtApi::remove_entry
remove_entry(dk, a, w, name) ==
    LET curr_dir == get_current_directory(dk, w)
    IN  IF ~curr_dir.ok THEN Ret(dk, a, curr_dir.err)
        ELSE
        LET f == remove_file_by_name(dk, a, name, curr_dir.val)
        IN  IF f.res = "NotAFile"
            THEN LET d == remove_dir_by_name(dk, a, name, curr_dir.val)
                 IN  Ret(d.disk, d.alloc, d.res)
            ELSE f

(***************************************************************************)
(* The disk writes of one operation, in the order Disk::write is called.   *)
(* A write is the run of n sectors at lba with the images it stores.       *)
(***************************************************************************)
DiskWrite(tag, lba, n, after) ==
    [tag |-> tag, lba |-> lba, cells |-> [x \in lba .. (lba + n - 1) |-> after[x]]]

\* the disk after the writes of log, applied in order to dk
RECURSIVE Replay(_, _)
Replay(dk, log) ==
    IF log = <<>> THEN dk
    ELSE Replay([x \in Sectors |-> IF x \in DOMAIN Head(log).cells
                                   THEN Head(log).cells[x] ELSE dk[x]],
                Tail(log))

\* the writes of FAtApi::add_file
add_file_writes(dk, a, w, name) ==
    LET cur == get_current_directory(dk, w)
    IN  IF ~cur.ok \/ Directory_get_entry(cur.val.dir, name).ok THEN <<>>
        ELSE
        LET fat == get_current_fat(dk, cur.val.dir)
            index == first_free_entry(fat)
        IN  IF ~index.ok THEN <<>>
            ELSE
            LET g == get_free_sector(a)
                dk1 == SectorAllocator_save(dk, g.alloc)
                dk2 == [dk1 EXCEPT ![g.val] = ZeroSector]
                used == new_used(g.val)
                early == <<DiskWrite("alloc", FIRST_USABLE_SECTOR - 2, 1, dk1),
                           DiskWrite("data", g.val, 1, dk2)>>
            IN  IF ~used.ok THEN early
                ELSE
                LET fat2 == FAT_add_entry(fat, used.val)
                    dir2 == Directory_add_entry(cur.val.dir,
                                DirEntry_new(name, index.val, FILE_ENTRY_TYPE))
                IN  IF ~fat2.ok \/ ~dir2.ok THEN early
                    ELSE
                    LET dk3 == FAT_save(dk2, fat2.val, cur.val.dir.fat_sector)
                        dk4 == Directory_save(dk3, dir2.val, cur.val.lba)
                    IN  early \o <<DiskWrite("fat", cur.val.dir.fat_sector, 1, dk3),
                                   DiskWrite("dir", cur.val.lba, DirSectors, dk4)>>

\* the writes of FAtApi::new_dir
new_dir_writes(dk, a, w, name) ==
    LET cur == get_current_directory(dk, w)
    IN  IF ~cur.ok \/ Directory_get_entry(cur.val.dir, name).ok THEN <<>>
        ELSE
        LET g == get_free_sectors(a, 9)
            fat_sector == g.val
            dk1 == SectorAllocator_save(dk, g.alloc)
            dir_sector == fat_sector + 1
            dir1 == Directory_add_entry(Directory_new(fat_sector),
                                        DirEntry_new(Dot, dir_sector, DIR_ENTRY_TYPE))
            parent_sector == get_parent_sector(dk1, w)
            early == <<DiskWrite("alloc", FIRST_USABLE_SECTOR - 2, 1, dk1)>>
        IN  IF ~dir1.ok \/ ~parent_sector.ok THEN early
            ELSE
            LET dir2 == Directory_add_entry(dir1.val,
                            DirEntry_new(DotDot, parent_sector.val, DIR_ENTRY_TYPE))
            IN  IF ~dir2.ok THEN early
                ELSE
                LET dk2 == FAT_save(dk1, FAT_new, fat_sector)
                    dk3 == Directory_save(dk2, dir2.val, dir_sector)
                    parent == get_current_directory(dk3, w)
                    made == early \o <<DiskWrite("fat", fat_sector, 1, dk2),
                                       DiskWrite("dir", dir_sector, DirSectors, dk3)>>
                IN  IF ~parent.ok THEN made
                    ELSE
                    LET p2 == Directory_add_entry(parent.val.dir,
                                  DirEntry_new(name, dir_sector, DIR_ENTRY_TYPE))
                    IN  IF ~p2.ok THEN made
                        ELSE made \o <<DiskWrite("dir", parent.val.lba, DirSectors,
                                           Directory_save(dk3, p2.val, parent.val.lba))>>

\* the writes of FAtApi::remove_file_by_name
remove_file_writes(dk, a, name, directory) ==
    LET r == remove_file_by_name(dk, a, name, directory)
        fat_index == Directory_get_entry(directory.dir, name).val.first_cluster
        fat1 == FAT_remove_entry(get_current_fat(dk, directory.dir), fat_index)
        dk1 == FAT_save(dk, fat1, directory.dir.fat_sector)
    IN  IF r.res # "Ok" THEN <<>>
        ELSE <<DiskWrite("fat", directory.dir.fat_sector, 1, dk1),
               DiskWrite("dir", directory.lba, DirSectors, r.disk)>>

\* the writes of FAtApi::remove_dir_by_name, those of the nested calls first
RECURSIVE remove_dir_writes(_, _, _, _)
RECURSIVE RemoveChildrenWrites(_, _, _, _, _)
remove_dir_writes(dk, a, name, directory) ==
    LET named == {i \in EntryIdx : to_string(directory.dir.entries[i]) = name}
        entry_index == IF named = {} THEN 0 ELSE LeastOf(named)
        t == get_directory_table_by_name(dk, directory.dir, name)
    IN  IF Not8(directory.dir.entries[entry_index].entry_type) = DIR_ENTRY_TYPE \/ ~t.ok
        THEN <<>>
        ELSE
        LET fat0 == get_current_fat(dk, t.val.dir)
            a1 == FreeUsed(a, fat0, 0)
            fat1 == [i \in FatIdx |-> IF is_used(fat0[i]) THEN new_free ELSE fat0[i]]
            r == RemoveChildren(dk, a1, t.val, t.val.dir.entries, 0)
            nested == RemoveChildrenWrites(dk, a1, t.val, t.val.dir.entries, 0)
        IN  IF r.res # "Ok" THEN nested
            ELSE
            LET dir == r.directory
                dk1 == FAT_save(r.disk, [fat1 EXCEPT ![0] = new_free], dir.dir.fat_sector)
                dk2 == Directory_save(dk1, [dir.dir EXCEPT !.magic = 0], dir.lba)
                directory2 == [directory.dir EXCEPT !.entries[entry_index] = DirEntry_empty]
                dk3 == Directory_save(dk2, directory2, directory.lba)
            IN  nested \o <<DiskWrite("fat", dir.dir.fat_sector, 1, dk1),
                            DiskWrite("dir", dir.lba, DirSectors, dk2),
                            DiskWrite("dir", directory.lba, DirSectors, dk3)>>

RemoveChildrenWrites(dk, a, dir, iter, i) ==
    IF i = NumEntries THEN <<>>
    ELSE IF /\ iter[i].entry_type = DIR_ENTRY_TYPE
            /\ to_string(iter[i]) # Dot
            /\ to_string(iter[i]) # DotDot
    THEN LET r == remove_dir_by_name(dk, a, to_string(iter[i]), dir)
             log == remove_dir_writes(dk, a, to_string(iter[i]), dir)
         IN  IF r.res # "Ok" THEN log
             ELSE log \o RemoveChildrenWrites(r.disk, r.alloc, r.directory, iter, i + 1)
    ELSE RemoveChildrenWrites(dk, a, dir, iter, i + 1)

\* the writes of FAtApi::remove_entry
remove_entry_writes(dk, a, w, name) ==
    LET curr_dir == get_current_directory(dk, w)
    IN  IF ~curr_dir.ok THEN <<>>
        ELSE IF remove_file_by_name(dk, a, name, curr_dir.val).res = "NotAFile"
        THEN remove_dir_writes(dk, a, name, curr_dir.val)
        ELSE remove_file_writes(dk, a, name, curr_dir.val)

\* FAtApi::save
FAtApi_save(dk, a) == SectorAllocator_save(dk, a)

(***************************************************************************)
(* Shell (Terminal)                                                        *)
(***************************************************************************)
\* Terminal::remove_last_path
remove_last_path(w) ==
    LET popped == IF w = <<>> THEN w ELSE SubSeq(w, 1, Len(w) - 1)
        slashes == {i \in 1 .. Len(popped) : popped[i] = Slash}
    IN  IF slashes = {} THEN popped
        ELSE SubSeq(popped, 1, CHOOSE i \in slashes : \A j \in slashes : j <= i)

\* Terminal::add_path
add_path(dk, w, dir_name) ==
    LET found == search_directory(dk, w, dir_name)
    IN  IF ~found.ok THEN [wd |-> w, res |-> found.err]
        ELSE IF ~found.val THEN [wd |-> w, res |-> "NotFound"]
        ELSE [wd |-> w \o dir_name \o <<Slash>>, res |-> "Ok"]

\* Terminal::cd
cd(dk, w, parm) ==
    IF parm = DotDot THEN [wd |-> remove_last_path(w), res |-> "Ok"]
    ELSE add_path(dk, w, parm)

(***************************************************************************)
(* Observations used by the properties                                     *)
(***************************************************************************)
\* the directories a directory links to under a name other than . and ..
ChildSlots(d) ==
    {i \in EntryIdx : /\ ~is_empty(d.entries[i])
                      /\ d.entries[i].entry_type = DIR_ENTRY_TYPE
                      /\ to_string(d.entries[i]) \notin {Dot, DotDot}}

\* the valid directories below directory d at lba, each with its own LBA and
\* the LBA of the directory that links to it
RECURSIVE Below(_, _, _, _)
Below(dk, d, lba, fuel) ==
    IF fuel = 0 THEN {}
    ELSE UNION {
        LET c == Directory_load(dk, d.entries[i].first_cluster, FALSE)
        IN  IF ~c.ok THEN {}
            ELSE {[dir |-> c.val, lba |-> d.entries[i].first_cluster, parent |-> lba]}
                 \cup Below(dk, c.val, d.entries[i].first_cluster, fuel - 1)
        : i \in ChildSlots(d)}

\* the non-root directories reachable from the root
SubDirs(dk) ==
    LET root == RootLoad(dk)
    IN  IF ~root.ok THEN {}
        ELSE Below(dk, root.val.dir, FIRST_DIRECTORY, DiskSectors \div 9)

\* every directory reachable from the root, the root included
AllDirs(dk) ==
    LET root == RootLoad(dk)
    IN  IF ~root.ok THEN {}
        ELSE {[dir |-> root.val.dir, lba |-> FIRST_DIRECTORY, parent |-> FIRST_DIRECTORY]}
             \cup SubDirs(dk)

\* the File-typed entries of a directory
FileSlots(d) ==
    {i \in EntryIdx : ~is_empty(d.entries[i]) /\ d.entries[i].entry_type = FILE_ENTRY_TYPE}

\* the tree under the root entry name has depth >= 2 with a file at each
\* level: the top directory holds a file and a subdirectory that holds a file
TreeDeep(dk, name) ==
    LET root == RootLoad(dk)
        e == Directory_get_entry(root.val.dir, name)
        top == Directory_load(dk, e.val.first_cluster, FALSE)
    IN  /\ root.ok
        /\ e.ok
        /\ top.ok
        /\ FileSlots(top.val) # {}
        /\ \E i \in ChildSlots(top.val) :
              LET sub == Directory_load(dk, top.val.entries[i].first_cluster, FALSE)
              IN  sub.ok /\ FileSlots(sub.val) # {}

\* allocated count: sectors handed out and not returned
Allocated(a) == (a.next_free - FIRST_USABLE_SECTOR) - Len(a.freed_sectors)

(***************************************************************************)
(* State machine: one action per shell command, Terminal::run included     *)
(***************************************************************************)
Cmd(op, name, buf, res, out) ==
    [op |-> op, name |-> name, buf |-> buf, res |-> res, out |-> out]

\* the step changes the disk, the allocator or the working directory
Changed == <<disk', allocator', wd'>> # <<disk, allocator, wd>>

\* last is the record of the last command that returned Ok or changed the
\* disk, the allocator or the working directory
Record(c) == last' = IF c.res # "Ok" /\ ~Changed THEN last ELSE c

NoMark ==
    [phase |-> "none", name |-> <<>>, count |-> 0, deep |-> FALSE, res |-> "Ok"]

AtRoot == PathParts(wd) = <<>>

\* mark follows one top-level directory: the allocated count before the
\* mkdir that created it in the root, while only successful touch and mkdir
\* below it and cd happen, until the rm of its name in the root
MarkAfter(c) ==
    IF c.op \in {"cd", "cat", "write"} /\ mark.phase = "built" THEN mark
    ELSE IF c.op = "mkdir" /\ c.res = "Ok" /\ AtRoot /\ mark.phase # "built"
    THEN [phase |-> "built", name |-> c.name, count |-> Allocated(allocator),
          deep |-> FALSE, res |-> "Ok"]
    ELSE IF c.op \in {"touch", "mkdir"} /\ c.res = "Ok" /\ ~AtRoot /\ mark.phase = "built"
    THEN mark
    ELSE IF c.op = "rm" /\ AtRoot /\ mark.phase = "built" /\ c.name = mark.name
    THEN [mark EXCEPT !.phase = "removed", !.res = c.res,
                      !.deep = TreeDeep(disk, c.name)]
    ELSE NoMark

\* a command that changes the state takes one unit of the budget ops
Counted ==
    /\ ops' = IF Changed THEN ops - 1 ELSE ops
    /\ ops' >= 0
    /\ UNCHANGED task_manager
    /\ mark' = IF Changed THEN MarkAfter(last') ELSE mark

\* Terminal::run with a command that changes the filesystem: the command,
\* then FAtApi::save
Run(r) ==
    /\ disk' = FAtApi_save(r.disk, r.alloc)
    /\ allocator' = r.alloc
    /\ wd' = wd

\* the guards of Touch and Mkdir: the sectors the command takes are on the
\* modelled disk
RoomForFile == Len(allocator.freed_sectors) > 0 \/ allocator.next_free + 1 <= DiskSectors
RoomForDir == allocator.next_free + 9 <= DiskSectors

\* touch <name>
Touch(name) ==
    LET r == add_file(disk, allocator, wd, name)
    IN  /\ RoomForFile
        /\ Run(r)
        /\ Record(Cmd("touch", name, 0, r.res, ZeroSector))
        /\ Counted

\* mkdir <name>
Mkdir(name) ==
    LET r == new_dir(disk, allocator, wd, name)
    IN  /\ RoomForDir
        /\ Run(r)
        /\ Record(Cmd("mkdir", name, 0, r.res, ZeroSector))
        /\ Counted

\* rm <name>
Rm(name) ==
    LET r == remove_entry(disk, allocator, wd, name)
    IN  /\ Run(r)
        /\ Record(Cmd("rm", name, 0, r.res, ZeroSector))
        /\ Counted

\* write <name> <text>
Write(name, buf) ==
    LET r == change_data(disk, allocator, wd, name, buf)
    IN  /\ Run(r)
        /\ Record(Cmd("write", name, buf, r.res, ZeroSector))
        /\ Counted

\* cat <name>
Cat(name) ==
    LET r == get_data(disk, wd, name)
    IN  /\ disk' = FAtApi_save(disk, allocator)
        /\ UNCHANGED <<allocator, wd>>
        /\ Record(Cmd("cat", name, 0, r.res, r.data))
        /\ Counted

\* cd <name|..>
Cd(parm) ==
    LET r == cd(disk, wd, parm)
    IN  /\ Len(PathParts(r.wd)) <= MaxDepth
        /\ wd' = r.wd
        /\ disk' = FAtApi_save(disk, allocator)
        /\ UNCHANGED allocator
        /\ Record(Cmd("cd", parm, 0, r.res, ZeroSector))
        /\ Counted

\* the disk and the allocator after FAtApi::new() on a zeroed disk:
\* FAT::load_or_create, Directory::load_or_create_dir and
\* SectorAllocator::load_or_create each write a fresh structure
BootDisk ==
    LET dk0 == [s \in Sectors |-> ZeroSector]
        dk1 == FAT_save(dk0, FAT_new, FIRST_USABLE_SECTOR - 1)
        dk2 == Directory_save(dk1, Directory_new(FIRST_DIRECTORY), FIRST_DIRECTORY)
    IN  SectorAllocator_save(dk2, SectorAllocator_new)

Boot ==
    /\ disk = BootDisk
    /\ allocator = SectorAllocator_new
    /\ wd = <<Slash>>
    /\ last = Cmd("boot", <<>>, 0, "Ok", ZeroSector)
    /\ task_manager = TaskManager_new
    /\ mark = NoMark

\* the shell with every command, on names of every kind
Init == Boot /\ ops = MaxOps

Next ==
    \/ \E n \in Names : Touch(n)
    \/ \E n \in Names : Mkdir(n)
    \/ \E n \in Names : Rm(n)
    \/ \E n \in Names, b \in Buffers : Write(n, b)
    \/ \E n \in Names : Cat(n)
    \/ \E n \in Names : Cd(n)

Spec == Init /\ [][Next]_vars

\* the shell building and removing directory trees with short names
InitTree == Boot /\ ops = TreeOps

NextTree ==
    \/ \E n \in TreeFiles : Touch(n)
    \/ \E n \in TreeDirs : Mkdir(n)
    \/ \E n \in TreeFiles \cup TreeDirs : Rm(n)
    \/ \E n \in TreeDirs \cup {DotDot} : Cd(n)

SpecTree == InitTree /\ [][NextTree]_vars

\* the shell working on files of a directory that is removed through its
\* own . entry
InitDot == Boot /\ ops = DotOps

NextDot ==
    \/ \E n \in DotFiles : Touch(n)
    \/ \E n \in TreeDirs : Mkdir(n)
    \/ \E n \in DotFiles : Rm(n)
    \/ \E n \in DotFiles, b \in Buffers : Write(n, b)
    \/ \E n \in DotFiles : Cat(n)
    \/ \E n \in TreeDirs \cup {DotDot} : Cd(n)

SpecDot == InitDot /\ [][NextDot]_vars

(***************************************************************************)
(* The SectorAllocator on its own                                          *)
(*                                                                         *)
(* The calls of SectorAllocator are applied to the allocators that the     *)
(* filesystem reaches by mkdir d; rm d repeated.  last is the last call    *)
(* with its argument, its result and the allocator it was applied to; mark *)
(* holds the number of mkdir d; rm d rounds, the sectors handed out and    *)
(* not freed since, and the calls made after the rounds.                   *)
(***************************************************************************)
\* what new_dir followed by remove_dir_by_name of the new directory does to
\* the allocator: 9 sectors from the watermark, the table freed, then the
\* directory
MkdirRm(a) ==
    LET g == get_free_sectors(a, DirSectors + 1)
    IN  free_directory(free(g.alloc, g.val), g.val + 1)

Call(op, arg, val, before) == [op |-> op, arg |-> arg, val |-> val, before |-> before]

Held == mark.held

\* the record of a call that handed out the sectors got and took back the
\* sectors back; calls are made on the fresh allocator, after one round and
\* after the last round
Made(c, got, back) ==
    /\ mark.rounds \in {0, 1, Cycles}
    /\ ops > 0
    /\ ops' = ops - 1
    /\ last' = c
    /\ UNCHANGED task_manager
    /\ mark' = [mark EXCEPT !.held = (Held \ back) \cup got, !.calls = Append(@, c)]
    /\ UNCHANGED wd

\* mkdir d; rm d in a directory without an entry d
Round ==
    /\ mark.calls = <<>>
    /\ mark.rounds < Cycles
    /\ allocator' = MkdirRm(allocator)
    /\ disk' = SectorAllocator_save(disk, allocator')
    /\ last' = Call("boot", 0, 0, allocator')
    /\ UNCHANGED task_manager
    /\ mark' = [mark EXCEPT !.rounds = @ + 1]
    /\ UNCHANGED <<wd, ops>>

\* SectorAllocator::get_free_sector
AllocOne ==
    LET r == get_free_sector(allocator)
    IN  /\ allocator.next_free + 1 <= MaxSector
        /\ allocator' = r.alloc
        /\ UNCHANGED disk
        /\ Made(Call("get_free_sector", 0, r.val, allocator), {r.val}, {})

\* SectorAllocator::get_free_sectors
AllocMany(count) ==
    LET r == get_free_sectors(allocator, count)
    IN  /\ allocator.next_free + count <= MaxSector
        /\ allocator' = r.alloc
        /\ UNCHANGED disk
        /\ Made(Call("get_free_sectors", count, r.val, allocator),
                r.val .. (r.val + count - 1), {})

\* SectorAllocator::free
FreeOne(sector) ==
    LET a == free(allocator, sector)
    IN  /\ allocator' = a
        /\ UNCHANGED disk
        /\ Made(Call("free", sector, 0, allocator), {}, {sector})

\* SectorAllocator::free_directory
FreeDir(sector) ==
    LET a == free_directory(allocator, sector)
    IN  /\ allocator' = a
        /\ UNCHANGED disk
        /\ Made(Call("free_directory", sector, 0, allocator), {},
                sector .. (sector + DirSectors - 1))

\* a restart: SectorAllocator::save, as Terminal::run issues it after every
\* command, then SectorAllocator::load, as FAtApi::new issues it
Restart ==
    LET dk == SectorAllocator_save(disk, allocator)
        l == SectorAllocator_load(dk)
    IN  /\ l.ok
        /\ disk' = dk
        /\ allocator' = l.val
        /\ Made(Call("restart", 0, 0, allocator), {}, {})

\* the counts get_free_sectors is called with: a pair, and the 9 sectors of
\* a directory with its table
AllocCounts == {2, DirSectors + 1}

\* the sectors the allocating calls made so far returned
Handed ==
    {mark.calls[i].val :
        i \in {j \in 1 .. Len(mark.calls) :
                  mark.calls[j].op \in {"get_free_sector", "get_free_sectors"}}}

\* the sectors free is called with: sectors a call returned that are still
\* handed out, and the two sectors 5 and 9 below the first usable one
FreeArgs == (Handed \cap Held) \cup {5, 9}

\* the sectors free_directory is called with: the sector after a returned
\* one when the 8 sectors from there on are handed out
DirArgs == {s + 1 : s \in {v \in Handed : \A i \in 1 .. DirSectors : v + i \in Held}}

InitAlloc ==
    /\ allocator = SectorAllocator_new
    /\ disk = BootDisk
    /\ wd = <<Slash>>
    /\ last = Call("boot", 0, 0, allocator)
    /\ task_manager = TaskManager_new
    /\ mark = [rounds |-> 0, held |-> {}, calls |-> <<>>]
    /\ ops = AllocOps

NextAlloc ==
    \/ Round
    \/ AllocOne
    \/ \E count \in AllocCounts : AllocMany(count)
    \/ \E sector \in FreeArgs : FreeOne(sector)
    \/ \E sector \in DirArgs : FreeDir(sector)
    \/ Restart

SpecAlloc == InitAlloc /\ [][NextAlloc]_vars

(***************************************************************************)
(* Startup on a damaged disk                                               *)
(*                                                                         *)
(* The shell makes a directory and a file, sectors of the structures are   *)
(* damaged while the kernel is down, and FAtApi::new starts the filesystem *)
(* again.  last is the record of the last step; after a start mark holds   *)
(* the images of the damaged sectors as the start found them.              *)
(***************************************************************************)
\* the sectors that get damaged: the root directory, the allocator, the
\* root table and the first sector of the first directory made
DamageSectors == {FIRST_DIRECTORY, FIRST_USABLE_SECTOR - 2, FIRST_USABLE_SECTOR - 1,
                  FIRST_USABLE_SECTOR + 1}

\* the damages: the sector zeroed, the sector zeroed but for the low byte of
\* the allocator magic in its first byte, and the first four bytes of a
\* directory zeroed
Damages == {"zero", "byte", "magic"}

Damaged(c, how) ==
    CASE how = "zero" -> ZeroSector
      [] how = "byte" -> DataSector(MAGIC_SECTOR_NUMBER)
      [] OTHER -> [c EXCEPT !.magic = 0]

Running == last.res # "panic"

Damage(s, how) ==
    LET c == Damaged(disk[s], how)
    IN  /\ Running
        /\ ops > 0
        /\ how = "magic" => disk[s].kind = "dir"
        /\ c # disk[s]
        /\ disk' = [disk EXCEPT ![s] = c]
        /\ last' = Cmd("damage", <<>>, s, "Ok", c)
        /\ ops' = ops - 1
        /\ UNCHANGED task_manager
        /\ mark' = NoMark
        /\ UNCHANGED <<allocator, wd>>

\* FAtApi::new, and WORKING_DIR as it is at startup
Start(dev) ==
    LET b == FAtApi_new(dev, disk)
    IN  /\ Running
        /\ ops > 0
        /\ disk' = b.disk
        /\ allocator' = b.alloc
        /\ wd' = <<Slash>>
        /\ last' = Cmd("start", <<>>, 0, b.res, ZeroSector)
        /\ ops' = ops - 1
        /\ UNCHANGED task_manager
        /\ mark' = [phase |-> "started", dev |-> dev,
                    before |-> [s \in DamageSectors |-> disk[s]]]

InitBoot == Boot /\ ops = BootOps

NextBoot ==
    \/ \E n \in TreeFiles : Running /\ Touch(n)
    \/ \E n \in TreeDirs : Running /\ Mkdir(n)
    \/ \E n \in TreeDirs : Running /\ Cd(n)
    \/ \E s \in DamageSectors, how \in Damages : Damage(s, how)
    \/ \E dev \in BOOLEAN : Start(dev)

SpecBoot == InitBoot /\ [][NextBoot]_vars

(***************************************************************************)
(* One Directory of the program's size, its entries added and removed in  *)
(* memory and the struct saved to and loaded from its sectors              *)
(***************************************************************************)
\* the slots of the entry array of the program: ENTRY_COUNT * 8 - 3 of them
Slots == 0 .. (ENTRY_COUNT * 8 - 3 - 1)

\* Directory::new with the entry array of the program
Directory_new_sized(fat_sector) ==
    [Directory_new(fat_sector) EXCEPT !.entries = [i \in Slots |-> DirEntry_empty]]

Digit(k) == <<"0", "1", "2", "3", "4", "5", "6", "7", "8", "9">>[k + 1]

\* one name for each slot
SlotName(i) == <<"f", "i", "l", "e", Digit(i \div 100), Digit((i \div 10) % 10), Digit(i % 10)>>

\* the sector the Directory is saved to
ImageLba == FIRST_USABLE_SECTOR + 1

\* the slots whose entry is removed by name
ClearSlots == {0, 100, ENTRY_COUNT * 8 - 3 - 1}

\* the numbers of filled slots at which entries are removed and the
\* Directory is saved and loaded
ProbeFills == {2, 228, ENTRY_COUNT * 8 - 3}

Filled(d) == {i \in DOMAIN d.entries : ~is_empty(d.entries[i])}

\* Directory::add_entry of a File entry named after the slot it will take
Fill ==
    LET d == mark.dir
        empty == DOMAIN d.entries \ Filled(d)
        n == SlotName(IF empty = {} THEN 0 ELSE LeastOf(empty))
        r == Directory_add_entry(d, DirEntry_new(n, 1, FILE_ENTRY_TYPE))
    IN  /\ last' = Cmd("add_entry", n, 0, IF r.ok THEN "Ok" ELSE r.err, ZeroSector)
        /\ UNCHANGED task_manager
        /\ mark' = [dir |-> IF r.ok THEN r.val ELSE d, before |-> d]
        /\ UNCHANGED <<disk, allocator, wd, ops>>

\* Directory::remove_entry
Clear(i) ==
    LET d == mark.dir
    IN  /\ ops > 0
        /\ Cardinality(Filled(d)) \in ProbeFills
        /\ Matching(d, SlotName(i)) # {}
        /\ last' = Cmd("remove_entry", SlotName(i), 0, "Ok", ZeroSector)
        /\ UNCHANGED task_manager
        /\ mark' = [dir |-> Directory_remove_entry(d, SlotName(i)), before |-> d]
        /\ ops' = ops - 1
        /\ UNCHANGED <<disk, allocator, wd>>

\* Directory::save, then Directory::load of the same sector
Persist ==
    LET d == mark.dir
        dk == Directory_save(disk, d, ImageLba)
        l == Directory_load(dk, ImageLba, FALSE)
    IN  /\ ops > 0
        /\ Cardinality(Filled(d)) \in ProbeFills
        /\ disk' = dk
        /\ last' = Cmd("save_load", <<>>, ImageLba, IF l.ok THEN "Ok" ELSE l.err, ZeroSector)
        /\ UNCHANGED task_manager
        /\ mark' = [dir |-> IF l.ok THEN l.val ELSE d, before |-> d]
        /\ ops' = ops - 1
        /\ UNCHANGED <<allocator, wd>>

InitImage ==
    /\ disk = BootDisk
    /\ allocator = SectorAllocator_new
    /\ wd = <<Slash>>
    /\ last = Cmd("boot", <<>>, 0, "Ok", ZeroSector)
    /\ task_manager = TaskManager_new
    /\ mark = [dir |-> Directory_new_sized(FIRST_USABLE_SECTOR),
               before |-> Directory_new_sized(FIRST_USABLE_SECTOR)]
    /\ ops = ImageOps

NextImage ==
    \/ Fill
    \/ \E i \in ClearSlots : Clear(i)
    \/ Persist

SpecImage == InitImage /\ [][NextImage]_vars

(***************************************************************************)
(* Allocation entries, built for a sector and read back                   *)
(***************************************************************************)
\* the sector numbers an entry is built for
EntrySectors == 0 .. MaxEntrySector

\* the 16-bit patterns an entry of a table is read from
EntryTypes == {TYPE_FREE, TYPE_EOF, TYPE_BAD, TYPE_USED}
Payloads == {0, 1, FIRST_USABLE_SECTOR, SECTOR_MASK}
RawEntries == {t + p : t \in EntryTypes, p \in Payloads}

\* The two functions are pure: a run makes one call, on any of the inputs.
\* FATEntry::new_used(sector), and get_sector of the entry it returns
NewUsed(sector) ==
    LET made == new_used(sector)
    IN  /\ last.op = "boot"
        /\ last' = Cmd("new_used", <<>>, sector, IF made.ok THEN "Ok" ELSE made.err, ZeroSector)
        /\ UNCHANGED task_manager
        /\ mark' = [sector |-> sector, made |-> made,
                    got |-> IF made.ok THEN get_sector(made.val) ELSE made]
        /\ UNCHANGED <<disk, allocator, wd, ops>>

\* FATEntry::get_sector of an entry of a table
GetSector(e) ==
    LET got == get_sector(e)
    IN  /\ last.op = "boot"
        /\ last' = Cmd("get_sector", <<>>, e, IF got.ok THEN "Ok" ELSE got.err, ZeroSector)
        /\ UNCHANGED task_manager
        /\ mark' = [sector |-> 0, made |-> [ok |-> TRUE, val |-> e], got |-> got]
        /\ UNCHANGED <<disk, allocator, wd, ops>>

InitEntry ==
    /\ Boot
    /\ ops = 0

NextEntry ==
    \/ \E sector \in EntrySectors : NewUsed(sector)
    \/ \E e \in RawEntries : GetSector(e)

SpecEntry == InitEntry /\ [][NextEntry]_vars

(***************************************************************************)
(* The watermark of the allocator in 16-bit arithmetic                     *)
(***************************************************************************)
\* the values of next_free the allocator starts from: the one of
\* SectorAllocator::new, and the ones SectorAllocator::load reads from a
\* sector that was saved when next_free was near the end of the u16 range
Watermarks == {FIRST_USABLE_SECTOR} \cup ((65536 - WaterSpan) .. 65535)

\* the counts the filesystem calls get_free_sectors with: 1 (through
\* get_free_sector, for a file) and 9 (for a directory with its table)
TakeCounts == {1, DirSectors + 1}

\* SectorAllocator::get_free_sectors(count) on an empty free-list.  With
\* overflow checks next_free += count panics when the sum does not fit in a
\* u16; without them it wraps.
Take(count, checked) ==
    LET r == get_free_sectors(allocator, count)
        overflow == allocator.next_free + count > 65535
    IN  /\ ops > 0
        /\ mark.res # "panic"
        /\ allocator' = IF overflow /\ checked THEN allocator ELSE r.alloc
        /\ last' = Call("get_free_sectors", count, r.val, allocator)
        /\ UNCHANGED task_manager
        /\ mark' = [res |-> IF overflow /\ checked THEN "panic" ELSE "Ok"]
        /\ ops' = ops - 1
        /\ UNCHANGED <<disk, wd>>

InitWater ==
    /\ \E w \in Watermarks : allocator = [next_free |-> w, freed_sectors |-> <<>>]
    /\ disk = SectorAllocator_save(BootDisk, allocator)
    /\ wd = <<Slash>>
    /\ last = Call("boot", 0, 0, allocator)
    /\ task_manager = TaskManager_new
    /\ mark = [res |-> "Ok"]
    /\ ops = WaterOps

NextWater == \E count \in TakeCounts, checked \in BOOLEAN : Take(count, checked)

SpecWater == InitWater /\ [][NextWater]_vars

(***************************************************************************)
(* FAtApi::new_entry on the table and the root directory that FAtApi::new *)
(* keeps in memory, and what list_dir and get_data then find on the disk   *)
(***************************************************************************)
\* FAtApi::new_entry; table and directory are the fields of FAtApi
new_entry(dk, a, table, directory, name) ==
    LET Out(d, al, t, dy, res) ==
            [disk |-> d, alloc |-> al, table |-> t, directory |-> dy, res |-> res]
    IN  IF Directory_get_entry(directory, name).ok
        THEN Out(dk, a, table, directory, "FileAlreadyExists")
        ELSE
        LET index == first_free_entry(table)
        IN  IF ~index.ok THEN Out(dk, a, table, directory, index.err)
            ELSE
            LET g == get_free_sector(a)
                dk1 == [dk EXCEPT ![g.val] = ZeroSector]
                used == new_used(g.val)
            IN  IF ~used.ok THEN Out(dk1, g.alloc, table, directory, used.err)
                ELSE
                LET t2 == FAT_add_entry(table, used.val)
                IN  IF ~t2.ok THEN Out(dk1, g.alloc, table, directory, t2.err)
                    ELSE
                    LET d2 == Directory_add_entry(directory,
                                  DirEntry_new(name, index.val, FILE_ENTRY_TYPE))
                    IN  IF ~d2.ok THEN Out(dk1, g.alloc, t2.val, directory, d2.err)
                        ELSE Out(dk1, g.alloc, t2.val, d2.val, "Ok")

\* FAtApi::list_dir: the names Directory::print writes for the current
\* directory; the unwrap panics when the directory does not resolve
list_dir(dk, w) ==
    LET cur == get_current_directory(dk, w)
    IN  IF ~cur.ok THEN [res |-> "panic", names |-> {}]
        ELSE [res |-> "Ok",
              names |-> {to_string(cur.val.dir.entries[i]) :
                            i \in {j \in DOMAIN cur.val.dir.entries :
                                      ~is_empty(cur.val.dir.entries[j])}}]

\* the names new_entry is called with
EntryNames == {<<"f">>, <<"g">>, <<"t">>, Xs}

\* new_entry(name), as test_file_system calls it
NewEntry(name) ==
    LET r == new_entry(disk, allocator, mark.table, mark.directory, name)
    IN  /\ disk' = r.disk
        /\ allocator' = r.alloc
        /\ UNCHANGED task_manager
        /\ mark' = [table |-> r.table, directory |-> r.directory]
        /\ last' = Cmd("new_entry", name, 0, r.res, ZeroSector)
        /\ UNCHANGED <<wd, ops>>

\* list_dir
ListDir ==
    LET r == list_dir(disk, wd)
    IN  /\ last' = Cmd("list_dir", <<>>, 0, r.res, r.names)
        /\ UNCHANGED <<disk, allocator, wd, ops, mark, task_manager>>

\* get_data(name)
GetData(name) ==
    LET r == get_data(disk, wd, name)
    IN  /\ last' = Cmd("get_data", name, 0, r.res, r.data)
        /\ UNCHANGED <<disk, allocator, wd, ops, mark, task_manager>>

\* FAtApi::new on a disk that holds a freshly made filesystem
InitNewEntry ==
    /\ disk = BootDisk
    /\ allocator = SectorAllocator_new
    /\ wd = <<Slash>>
    /\ last = Cmd("boot", <<>>, 0, "Ok", ZeroSector)
    /\ task_manager = TaskManager_new
    /\ mark = [table |-> FAT_load(disk, FIRST_USABLE_SECTOR - 1),
               directory |-> Directory_load(disk, FIRST_DIRECTORY, TRUE).val]
    /\ ops = 0

NextNewEntry ==
    \/ \E name \in EntryNames : NewEntry(name)
    \/ ListDir
    \/ \E name \in EntryNames : GetData(name)

SpecNewEntry == InitNewEntry /\ [][NextNewEntry]_vars

(***************************************************************************)
(* The scheduler: tasks are numbered in the order of their creation; mark  *)
(* follows the task whose state switch_context loaded last, the task that  *)
(* was current when remove_task was called, and the task schedule removed  *)
(***************************************************************************)
\* the task in slot index of the list, 0 when there is no such slot
TaskAt(tm, index) ==
    IF index >= 0 /\ index < Len(tm.tasks) THEN tm.tasks[index + 1] ELSE 0

\* add_task(Task::new(..))
AddTask ==
    /\ mark.made < MaxTasks
    /\ task_manager' = add_task(task_manager, mark.made + 1)
    /\ mark' = [mark EXCEPT !.made = @ + 1, !.removed = 0, !.wanted = 0]
    /\ last' = Cmd("add_task", <<>>, mark.made + 1, "Ok", ZeroSector)
    /\ UNCHANGED <<disk, allocator, wd, ops>>

\* remove_task: the function of the running task has returned
RemoveTask ==
    /\ task_manager.tasks # <<>>
    /\ mark.running # 0
    /\ task_manager' = delete_current(task_manager)
    /\ mark' = [mark EXCEPT !.asked = TaskAt(task_manager, task_manager.current_task),
                            !.removed = 0, !.wanted = 0]
    /\ last' = Cmd("remove_task", <<>>, task_manager.current_task, "Ok", ZeroSector)
    /\ UNCHANGED <<disk, allocator, wd, ops>>

\* schedule, as the timer interrupt calls it
Schedule ==
    LET tm == task_manager
        entered == Len(tm.tasks) > 0 /\ ~tm.switching
        s == switch_context(tm)
        removes == entered /\ tm.delete # NoDelete /\ tm.delete < Len(tm.tasks)
    IN  /\ task_manager' = schedule(tm)
        /\ mark' = [made |-> mark.made,
                    running |-> IF entered THEN TaskAt(s, s.current_task) ELSE mark.running,
                    asked |-> IF entered THEN 0 ELSE mark.asked,
                    removed |-> IF removes THEN TaskAt(tm, tm.delete) ELSE 0,
                    wanted |-> IF removes THEN mark.asked ELSE 0]
        /\ last' = Cmd("schedule", <<>>, 0, "Ok", ZeroSector)
        /\ UNCHANGED <<disk, allocator, wd, ops>>

InitSched ==
    /\ disk = BootDisk
    /\ allocator = SectorAllocator_new
    /\ wd = <<Slash>>
    /\ last = Cmd("boot", <<>>, 0, "Ok", ZeroSector)
    /\ task_manager = TaskManager_new
    /\ mark = [made |-> 0, running |-> 0, asked |-> 0, removed |-> 0, wanted |-> 0]
    /\ ops = 0

NextSched ==
    \/ AddTask
    \/ RemoveTask
    \/ Schedule

SpecSched == InitSched /\ [][NextSched]_vars

(***************************************************************************)
(* Properties                                                              *)
(***************************************************************************)

\* C2: every sector of the free-list is >= FIRST_USABLE_SECTOR and below the
\* watermark, and no sector is in the free-list twice
C2_FreeListPartition ==
    LET f == allocator.freed_sectors
    IN  \A i \in 1 .. Len(f) :
            /\ f[i] >= FIRST_USABLE_SECTOR
            /\ f[i] < allocator.next_free
            /\ \A j \in 1 .. Len(f) : j # i => f[j] # f[i]

\* C7: every non-root directory reachable from the root has a . entry that
\* points at its own LBA and a .. entry that points at its parent's LBA
C7_SelfParentPermanent ==
    \A r \in SubDirs(disk) :
        /\ \E i \in EntryIdx : /\ to_string(r.dir.entries[i]) = Dot
                               /\ r.dir.entries[i].first_cluster = r.lba
        /\ \E i \in EntryIdx : /\ to_string(r.dir.entries[i]) = DotDot
                               /\ r.dir.entries[i].first_cluster = r.parent

\* C8: no directory holds two non-empty entries with the same stored name
C8_NoDuplicateNames ==
    \A r \in AllDirs(disk) :
        \A i, j \in EntryIdx :
            (i # j /\ ~is_empty(r.dir.entries[i]) /\ ~is_empty(r.dir.entries[j]))
                => to_string(r.dir.entries[i]) # to_string(r.dir.entries[j])

\* the directory at lba as path resolution loads it
LoadAt(dk, lba) == Directory_load(dk, lba, lba = FIRST_DIRECTORY)

\* C3: after change_data(f, b) returns Ok, get_data(f) returns exactly b and
\* get_data of every other file, in any directory, returns what it returned
\* before the call
C3_WriteReadRoundTrip ==
    \A f \in ProbeNames, b \in {1, 2} :
        LET r == change_data(disk, allocator, wd, f, b)
            cur == get_current_directory(disk, wd)
        IN  r.res = "Ok" =>
              /\ get_data(r.disk, wd, f) = [res |-> "Ok", data |-> DataSector(b)]
              /\ \A d \in AllDirs(disk), g \in ProbeNames :
                    ((d.lba # cur.val.lba \/ g # f) /\ ReadFile(disk, d.dir, g).res = "Ok")
                    => /\ LoadAt(r.disk, d.lba).ok
                       /\ ReadFile(r.disk, LoadAt(r.disk, d.lba).val, g)
                            = ReadFile(disk, d.dir, g)

\* C4: add_file(name) that returns Ok took exactly one sector s from the
\* allocator, s is all zeros on disk, the table of the current directory
\* has a Used slot i holding s, the directory has a File entry for name with
\* first_cluster = i, and get_data(name) returns 512 zero bytes
C4_AddFilePost ==
    \A n \in ProbeNames :
        LET r == add_file(disk, allocator, wd, n)
            f == allocator.freed_sectors
            s == IF Len(f) > 0 THEN f[Len(f)] ELSE allocator.next_free
            taken == IF Len(f) > 0
                     THEN [allocator EXCEPT !.freed_sectors = SubSeq(f, 1, Len(f) - 1)]
                     ELSE [allocator EXCEPT !.next_free = s + 1]
            cur == get_current_directory(r.disk, wd)
            e == Directory_get_entry(cur.val.dir, n)
        IN  (RoomForFile /\ r.res = "Ok") =>
              /\ r.alloc = taken
              /\ r.disk[s] = ZeroSector
              /\ cur.ok
              /\ e.ok
              /\ e.val.entry_type = FILE_ENTRY_TYPE
              /\ e.val.first_cluster \in FatIdx \ {0}
              /\ get_current_fat(r.disk, cur.val.dir)[e.val.first_cluster] = TYPE_USED + s
              /\ get_data(r.disk, wd, n) = [res |-> "Ok", data |-> ZeroSector]

\* C1: a successful rm of a top-level directory name, after a tree was built
\* under it with successful new_dir and add_file calls, brings the allocated
\* count back to its value before the mkdir that created the directory
C1_RemovalLeakFree ==
    (mark.phase = "removed" /\ mark.res = "Ok") => Allocated(allocator) = mark.count

\* C1: a tree of depth 2 with a file at each level has been removed
C1_DeepTreeRemoved ==
    /\ mark.phase = "removed"
    /\ mark.res = "Ok"
    /\ mark.deep
    /\ last.op = "rm"
    /\ Len(allocator.freed_sectors) >= 20

\* C6: new_dir(name) that returns Ok in working directory D took the 9
\* sectors s..s+8 at the watermark, s holds a valid empty table, s+1..s+8
\* hold a valid directory with fat_sector s, a "." entry for s+1 and a ".."
\* entry for the LBA of D, and D on disk has a Directory entry for the
\* (stored) name with first_cluster s+1
C6_NewDirPost ==
    \A n \in ProbeNames :
        LET r == new_dir(disk, allocator, wd, n)
            s == allocator.next_free
            D == get_current_directory(disk, wd)
            sub == Directory_load(r.disk, s + 1, FALSE)
            self == Directory_get_entry(sub.val, Dot)
            up == Directory_get_entry(sub.val, DotDot)
            D2 == LoadAt(r.disk, D.val.lba)
        IN  (RoomForDir /\ r.res = "Ok") =>
              /\ r.alloc = [allocator EXCEPT !.next_free = s + 9]
              /\ r.disk[s].kind = "fat"
              /\ FAT_load(r.disk, s) = FAT_new
              /\ sub.ok
              /\ sub.val.fat_sector = s
              /\ \A i \in 2 .. 8 : r.disk[s + i] = TailSector
              /\ self.ok /\ self.val = DirEntry_new(Dot, s + 1, DIR_ENTRY_TYPE)
              /\ up.ok /\ up.val = DirEntry_new(DotDot, D.val.lba, DIR_ENTRY_TYPE)
              /\ Cardinality({i \in EntryIdx : ~is_empty(sub.val.entries[i])}) = 2
              /\ D2.ok
              /\ \E i \in EntryIdx : D2.val.entries[i] = DirEntry_new(n, s + 1, DIR_ENTRY_TYPE)

\* C6: mkdir has just returned Ok in a directory below the root
C6_SubdirMade ==
    /\ last.op = "mkdir"
    /\ last.res = "Ok"
    /\ Len(PathParts(wd)) >= 1
    /\ get_current_directory(disk, wd).ok
    /\ get_current_directory(disk, wd).val.lba # FIRST_DIRECTORY
    /\ LET D == get_current_directory(disk, wd).val.dir
           e == Directory_get_entry(D, last.name)
       IN  /\ e.ok
           /\ e.val.first_cluster + 8 = allocator.next_free
           /\ Directory_load(disk, e.val.first_cluster, FALSE).ok

\* C5: remove_entry(name) that returns Ok for a File entry of the current
\* directory D leaves D without an entry of that name, the table slot of
\* the entry Free, the data sector of the file last in the free-list, and
\* every other entry and table slot of D as it was
C5_RemoveFilePost ==
    \A n \in ProbeNames :
        LET D == get_current_directory(disk, wd)
            e == Directory_get_entry(D.val.dir, n)
            slot == LeastOf(Matching(D.val.dir, n))
            fat == get_current_fat(disk, D.val.dir)
            sec == get_sector(fat[e.val.first_cluster])
            r == remove_entry(disk, allocator, wd, n)
            D2 == LoadAt(r.disk, D.val.lba)
            fat2 == FAT_load(r.disk, D.val.dir.fat_sector)
        IN  (D.ok /\ e.ok /\ e.val.entry_type = FILE_ENTRY_TYPE /\ r.res = "Ok") =>
              /\ D2.ok
              /\ ~Directory_get_entry(D2.val, n).ok
              /\ is_free(fat2[e.val.first_cluster])
              /\ sec.ok
              /\ r.alloc = [allocator EXCEPT !.freed_sectors = Append(@, sec.val)]
              /\ \A i \in EntryIdx \ {slot} : D2.val.entries[i] = D.val.dir.entries[i]
              /\ \A j \in FatIdx \ {e.val.first_cluster} : fat2[j] = fat[j]

\* C9: once add_file(n) or new_dir(n) has returned Ok in the current
\* directory, add_file(n) fails with FileAlreadyExists and new_dir(n) fails
\* with DirAlreadyExists
C9_NameConflict ==
    \A n \in ProbeNames :
        LET f == add_file(disk, allocator, wd, n)
            d == new_dir(disk, allocator, wd, n)
        IN  allocator.next_free + 18 <= DiskSectors =>
              /\ f.res = "Ok" =>
                    /\ add_file(FAtApi_save(f.disk, f.alloc), f.alloc, wd, n).res
                         = "FileAlreadyExists"
                    /\ new_dir(FAtApi_save(f.disk, f.alloc), f.alloc, wd, n).res
                         = "DirAlreadyExists"
              /\ d.res = "Ok" =>
                    /\ add_file(FAtApi_save(d.disk, d.alloc), d.alloc, wd, n).res
                         = "FileAlreadyExists"
                    /\ new_dir(FAtApi_save(d.disk, d.alloc), d.alloc, wd, n).res
                         = "DirAlreadyExists"

LogicalConflicts ==
    {"FileAlreadyExists", "DirAlreadyExists", "FileNotFound", "DirectoryNotFound",
     "NotAFile", "NotADirectory"}

\* C10: an operation that returns a logical-conflict error leaves the
\* allocator and every disk sector as they were; get_data and change_data on
\* a Directory entry return NotAFile and remove_entry on an absent name
\* returns FileNotFound
C10_ConflictsMutationFree ==
    \A n \in ProbeNames :
        LET D == get_current_directory(disk, wd)
            e == Directory_get_entry(D.val.dir, n)
            Same(r) == r.res \in LogicalConflicts => (r.disk = disk /\ r.alloc = allocator)
        IN  /\ RoomForFile => Same(add_file(disk, allocator, wd, n))
            /\ RoomForDir => Same(new_dir(disk, allocator, wd, n))
            /\ Same(remove_entry(disk, allocator, wd, n))
            /\ Same(change_data(disk, allocator, wd, n, 1))
            /\ (D.ok /\ e.ok /\ e.val.entry_type = DIR_ENTRY_TYPE) =>
                  /\ get_data(disk, wd, n).res = "NotAFile"
                  /\ change_data(disk, allocator, wd, n, 1).res = "NotAFile"
            /\ (D.ok /\ ~e.ok) =>
                  LET r == remove_entry(disk, allocator, wd, n)
                  IN  r.res = "FileNotFound" /\ r.disk = disk /\ r.alloc = allocator

\* the sectors that hold a table or a part of a directory
StructureSectors(dk) == {s \in Sectors : dk[s].kind \in {"fat", "dir", "tail"}}

\* C11: add_file or new_dir that returns OutOfSpace or BadSector leaves the
\* allocator in memory, the allocator sector on disk and every table and
\* directory sector on disk as they were
C11_ExhaustionMutationFree ==
    \A n \in ProbeNames :
        LET Same(r) ==
                r.res \in {"OutOfSpace", "BadSector"} =>
                    /\ r.alloc = allocator
                    /\ r.disk[FIRST_USABLE_SECTOR - 2] = disk[FIRST_USABLE_SECTOR - 2]
                    /\ \A s \in StructureSectors(disk) : r.disk[s] = disk[s]
        IN  /\ RoomForFile => Same(add_file(disk, allocator, wd, n))
            /\ RoomForDir => Same(new_dir(disk, allocator, wd, n))

\* C12: every File entry of every directory reachable from the root has a
\* first_cluster that indexes a Used slot of the directory's own table, and
\* get_data of an existing file returns neither UnusedSector nor
\* IndexOutOfBounds
C12_FileSlotsUsed ==
    \A r \in AllDirs(disk) :
        /\ \A i \in FileSlots(r.dir) :
              /\ r.dir.entries[i].first_cluster \in FatIdx \ {0}
              /\ is_used(get_current_fat(disk, r.dir)[r.dir.entries[i].first_cluster])
        /\ \A n \in ProbeNames :
              ReadFile(disk, r.dir, n).res \notin {"UnusedSector", "IndexOutOfBounds"}

\* the writes of every operation, replayed on the disk, give the disk the
\* operation returns
WritesAreTheEffect ==
    \A n \in ProbeNames :
        /\ RoomForFile =>
              Replay(disk, add_file_writes(disk, allocator, wd, n))
                = add_file(disk, allocator, wd, n).disk
        /\ RoomForDir =>
              Replay(disk, new_dir_writes(disk, allocator, wd, n))
                = new_dir(disk, allocator, wd, n).disk
        /\ Replay(disk, remove_entry_writes(disk, allocator, wd, n))
             = remove_entry(disk, allocator, wd, n).disk

\* every non-empty entry of every directory reachable from the root
\* references an object that was written: the table slot of a File entry is
\* Used and the LBA of a Directory entry holds a directory with a valid magic
Linked(dk) ==
    \A r \in AllDirs(dk) :
        \A i \in EntryIdx :
            LET e == r.dir.entries[i]
            IN  ~is_empty(e) =>
                  IF e.entry_type = DIR_ENTRY_TYPE
                  THEN e.first_cluster \in Sectors /\ Directory_load(dk, e.first_cluster, FALSE).ok
                  ELSE /\ e.first_cluster \in FatIdx \ {0}
                       /\ is_used(get_current_fat(dk, r.dir)[e.first_cluster])

\* the logs of the three mutating operations called with name n
LogsOf(n) ==
    (IF RoomForFile THEN {add_file_writes(disk, allocator, wd, n)} ELSE {})
    \cup (IF RoomForDir THEN {new_dir_writes(disk, allocator, wd, n)} ELSE {})
    \cup {remove_entry_writes(disk, allocator, wd, n)}

\* C13: if the disk is linked, it is linked after every prefix of the disk
\* writes of a single add_file, new_dir or remove_entry call
C13_CrashPrefixLinked ==
    Linked(disk) =>
        \A n \in ProbeNames :
            \A log \in LogsOf(n) :
                \A k \in 0 .. Len(log) : Linked(Replay(disk, SubSeq(log, 1, k)))

\* the place of a write in the sequence data sector, table, directory
Rank(w) == CASE w.tag = "data" -> 1 [] w.tag = "fat" -> 2 [] OTHER -> 3

IsStructureWrite(w) == w.tag # "alloc"

\* C14: within one add_file, new_dir or remove_entry call (on a name other
\* than . and ..) the writes to
\* filesystem structures come in the order data sector, table, directory,
\* parent directory, and no table is written after the directory that owns it
C14_FixedWriteOrder ==
    \A n \in ProbeNames \ {Dot, DotDot} :
        \A log \in LogsOf(n) :
            LET w == SelectSeq(log, IsStructureWrite)
            IN  \A i, j \in 1 .. Len(w) :
                    i < j =>
                        /\ Rank(w[i]) <= Rank(w[j])
                        /\ ~(/\ w[i].tag = "dir"
                             /\ w[j].tag = "fat"
                             /\ w[i].cells[w[i].lba].fat_sector = w[j].lba)

\* the allocator sector on the disk a call leaves decodes to the allocator
\* the call leaves in memory
Flushed(r) == r.res = "Ok" => SectorAllocator_load(r.disk) = [ok |-> TRUE, val |-> r.alloc]

\* C15: when add_file, new_dir or remove_entry (on a name other than . and
\* ..) returns Ok, the allocator sector on disk decodes to the in-memory
\* allocator: loading the allocator from the disk the call leaves gives the
\* watermark and the free-list the call leaves in memory
C15_SynchronousFlush ==
    \A n \in ProbeNames \ {Dot, DotDot} :
        /\ Flushed(add_file(disk, allocator, wd, n))
        /\ Flushed(new_dir(disk, allocator, wd, n))
        /\ Flushed(remove_entry(disk, allocator, wd, n))

\* cd d then cd .. from working directory w
CdRoundTrip(dk, w, d) ==
    LET c1 == cd(dk, w, d)
        c2 == cd(dk, c1.wd, DotDot)
        before == get_current_directory(dk, w)
        after == get_current_directory(dk, c2.wd)
    IN  /\ c1.res = "Ok"
        /\ c2.wd = w
        /\ before.ok /\ after.ok /\ after.val.lba = before.val.lba

\* C16: from every working directory the cd commands reach, once mkdir of a
\* short ordinary name has succeeded, cd into it succeeds and a following
\* cd .. gives back the working-directory string and the directory LBA that
\* path resolution gave before
C16_CdRoundTrip ==
    \A d \in {<<"d">>, <<"g">>} :
        LET m == new_dir(disk, allocator, wd, d)
        IN  m.res = "Ok" => CdRoundTrip(FAtApi_save(m.disk, m.alloc), wd, d)

\* C17: get_free_sector on a non-empty free-list removes and returns the
\* sector freed last and leaves the watermark; on an empty free-list it
\* returns the watermark and raises it by one; free(5); free(9) followed by
\* two get_free_sector calls returns 9 then 5
C17_LifoThenWatermark ==
    LET a == allocator
        f == a.freed_sectors
        r == get_free_sector(a)
        e == get_free_sector([a EXCEPT !.freed_sectors = <<>>])
        g1 == get_free_sector(free(free(a, 5), 9))
        g2 == get_free_sector(g1.alloc)
    IN  /\ Len(f) > 0 =>
              /\ r.val = f[Len(f)]
              /\ r.alloc.freed_sectors = SubSeq(f, 1, Len(f) - 1)
              /\ r.alloc.next_free = a.next_free
        /\ Len(f) = 0 => r = e
        /\ e.val = a.next_free
        /\ e.alloc.next_free = a.next_free + 1
        /\ e.alloc.freed_sectors = <<>>
        /\ g1.val = 9 /\ g2.val = 5
        /\ g2.alloc = a

\* C17: free(5); free(9) and two get_free_sector calls have been made on an
\* allocator with a long free-list, and returned 9 then 5
C17_FiveNineNineFive ==
    /\ Len(mark.calls) = 4
    /\ mark.calls[1].op = "free" /\ mark.calls[1].arg = 5
    /\ mark.calls[2].op = "free" /\ mark.calls[2].arg = 9
    /\ mark.calls[3].op = "get_free_sector" /\ mark.calls[3].val = 9
    /\ mark.calls[4].op = "get_free_sector" /\ mark.calls[4].val = 5
    /\ Len(allocator.freed_sectors) > BitmapCap
    /\ allocator = mark.calls[1].before

\* C18: get_free_sectors(n) returns the watermark w, sets the watermark to
\* w + n and leaves the free-list as it is, empty or not; none of the
\* sectors w .. w+n-1 is a sector handed out earlier and not freed since
C18_FreshRange ==
    \A count \in AllocCounts :
        LET r == get_free_sectors(allocator, count)
            w == allocator.next_free
        IN  /\ r.val = w
            /\ r.alloc.next_free = w + count
            /\ r.alloc.freed_sectors = allocator.freed_sectors
            /\ (r.val .. (r.val + count - 1)) \cap Held = {}

\* C18: get_free_sectors(9) has been called on a non-empty free-list while
\* sectors taken from the free-list and from the watermark were handed out
C18_RangeBesideFreeList ==
    /\ last.op = "get_free_sectors"
    /\ last.arg = DirSectors + 1
    /\ Len(last.before.freed_sectors) > 0
    /\ allocator.freed_sectors = last.before.freed_sectors
    /\ \E i \in 1 .. Len(mark.calls) :
          /\ mark.calls[i].op = "get_free_sector"
          /\ mark.calls[i].val < FIRST_USABLE_SECTOR + (DirSectors + 1)
          /\ mark.calls[i].val \in Held
    /\ \E i \in 1 .. Len(mark.calls) :
          /\ mark.calls[i].op = "get_free_sectors"
          /\ mark.calls[i].val < last.val
          /\ mark.calls[i].val \in Held

\* C19: free(lba) appends exactly lba to the free-list, free_directory(lba)
\* appends exactly lba, lba+1, ..., lba+7; neither changes the watermark or
\* an element the free-list already holds
C19_FreeAppends ==
    \A lba \in FreeArgs :
        LET f == allocator.freed_sectors
            one == free(allocator, lba)
            dir == free_directory(allocator, lba)
        IN  /\ one.next_free = allocator.next_free
            /\ one.freed_sectors = f \o <<lba>>
            /\ dir.next_free = allocator.next_free
            /\ Len(dir.freed_sectors) = Len(f) + 8
            /\ SubSeq(dir.freed_sectors, 1, Len(f)) = f
            /\ \A i \in 0 .. 7 : dir.freed_sectors[Len(f) + 1 + i] = lba + i

\* C19: free and free_directory have both been called on a non-empty
\* free-list
C19_BothFreed ==
    /\ last.op = "free_directory"
    /\ Len(last.before.freed_sectors) > 0
    /\ Len(allocator.freed_sectors) = Len(last.before.freed_sectors) + 8
    /\ \E i \in 1 .. Len(mark.calls) :
          /\ mark.calls[i].op = "free"
          /\ Len(mark.calls[i].before.freed_sectors) > 0

\* mkdir n; rm n with a name the directory has no entry for changes the
\* allocator as one round does
RoundIsMkdirRm ==
    \A n \in {<<"d">>, <<"g">>} :
        LET m == new_dir(disk, allocator, wd, n)
            r == remove_entry(FAtApi_save(m.disk, m.alloc), m.alloc, wd, n)
        IN  (RoomForDir /\ m.res = "Ok" /\ r.res = "Ok") => r.alloc = MkdirRm(allocator)

\* C20: for every allocator the filesystem operations reach, whatever the
\* length of its free-list, save followed by load gives an allocator with
\* the same watermark and the same free-list in the same order
C20_SaveLoadRoundTrip ==
    SectorAllocator_load(SectorAllocator_save(disk, allocator)) = [ok |-> TRUE, val |-> allocator]

\* the first two bytes of a sector, read as a little-endian u16
FirstWord(c) == FAT_from_buffer(c)[0]

\* C21: load of the allocator returns InvalidSectorAllocator exactly when
\* the first two bytes of the allocator sector are not the allocator magic;
\* in that case load_or_create installs a new allocator (watermark
\* FIRST_USABLE_SECTOR, empty free-list), whatever the rest of the sector
\* holds, and writes it back; otherwise it installs what load returned
C21_AllocatorMagicGate ==
    LET c == disk[FIRST_USABLE_SECTOR - 2]
        l == SectorAllocator_load(disk)
        n == SectorAllocator_load_or_create(TRUE, disk)
    IN  /\ l.ok <=> FirstWord(c) = MAGIC_SECTOR_NUMBER
        /\ ~l.ok =>
              /\ l.err = "InvalidSectorAllocator"
              /\ n.res = "Ok"
              /\ n.alloc = SectorAllocator_new
              /\ n.disk = [disk EXCEPT ![FIRST_USABLE_SECTOR - 2] = to_bitmap(SectorAllocator_new)]
              /\ SectorAllocator_load(n.disk) = [ok |-> TRUE, val |-> SectorAllocator_new]
        /\ l.ok => (n.res = "Ok" /\ n.alloc = l.val /\ n.disk = disk)

\* C21: the filesystem has started on a disk whose allocator sector was
\* zeroed after sectors had been handed out, and runs with a new allocator
C21_StartedOnZeroedAllocator ==
    /\ last.op = "start"
    /\ last.res = "Ok"
    /\ mark.phase = "started"
    /\ mark.before[FIRST_USABLE_SECTOR - 2] = ZeroSector
    /\ allocator = SectorAllocator_new
    /\ disk[FIRST_USABLE_SECTOR - 2] = to_bitmap(SectorAllocator_new)
    /\ \E i \in EntryIdx : ~is_empty(Directory_load(disk, FIRST_DIRECTORY, TRUE).val.entries[i])

\* C22: when at startup the root table sector is read and its entry 0 is
\* not the table magic, startup aborts and the root table sector is left as
\* it was
C22_RootTableFatal ==
    LET b == FAtApi_new(TRUE, disk)
    IN  ~FAT_is_valid(FAT_load(disk, FIRST_USABLE_SECTOR - 1)) =>
            /\ b.res = "panic"
            /\ b.disk[FIRST_USABLE_SECTOR - 1] = disk[FIRST_USABLE_SECTOR - 1]

\* the call r failed with InvalidDirectory and left the disk and the
\* allocator as they are
Refused(r) == r.res = "InvalidDirectory" /\ r.disk = disk /\ r.alloc = allocator

C24_CorruptionPolicy ==
    /\ LET root == Directory_load(disk, FIRST_DIRECTORY, TRUE)
       IN  root.ok =>
             \A n \in ProbeNames :
                LET e == Directory_get_entry(root.val, n)
                    g == get_directory_table_by_name(disk, root.val, n)
                IN  (/\ e.ok
                     /\ e.val.entry_type = DIR_ENTRY_TYPE
                     /\ ~Directory_load(disk, e.val.first_cluster, FALSE).ok)
                    => /\ g.ok
                       /\ g.val.dir.magic = DIRECTORY_MAGIC
                       /\ \A i \in EntryIdx : is_empty(g.val.dir.entries[i])
    /\ LET b == FAtApi_new(TRUE, disk)
       IN  ~Directory_load(disk, FIRST_DIRECTORY, TRUE).ok =>
             /\ b.res = "panic"
             /\ b.disk[FIRST_DIRECTORY] = disk[FIRST_DIRECTORY]

\* the Directory in memory and the Directory that save and then load of
\* sector lba give back hold the same header, the same filled slots and
\* the same entry in each of them
SameAfterSaveLoad(d, lba) ==
    LET l == Directory_load(Directory_save(disk, d, lba), lba, FALSE)
    IN  /\ l.ok
        /\ l.val.magic = d.magic
        /\ l.val.fat_sector = d.fat_sector
        /\ \A i \in DOMAIN d.entries :
              IF is_empty(d.entries[i]) THEN is_empty(l.val.entries[i])
              ELSE l.val.entries[i] = d.entries[i]

\* C25: whichever of its ENTRY_COUNT * 8 - 3 slots are filled, a Directory
\* that is saved and then loaded from the same sector comes back with the
\* same magic, the same fat_sector and the same entry in every slot.
C25_DirectoryRoundTrip == SameAfterSaveLoad(mark.dir, ImageLba)

\* the slots of d that hold an empty entry
EmptySlots(d) == DOMAIN d.entries \ Filled(d)

\* d is b with entry e in slot i and nothing else changed
PutAt(b, d, i, e) ==
    /\ d.entries[i] = e
    /\ \A j \in DOMAIN b.entries \ {i} : d.entries[j] = b.entries[j]
    /\ d.magic = b.magic
    /\ d.fat_sector = b.fat_sector

\* C26: Directory::add_entry puts the entry in the lowest empty slot and
\* changes no other slot; on a Directory with no empty slot it returns
\* OutOfSpace and leaves the Directory as it was; and when remove_entry has
\* emptied one slot of a full Directory, the next add_entry succeeds and
\* puts its entry in that slot.
C26_LowestSlotAndReuse ==
    LET b == mark.before
        d == mark.dir
        e == DirEntry_new(last.name, 1, FILE_ENTRY_TYPE)
        again == Directory_add_entry(d, e)
    IN  /\ last.op = "add_entry" =>
              IF EmptySlots(b) = {}
              THEN last.res = "OutOfSpace" /\ d = b
              ELSE last.res = "Ok" /\ PutAt(b, d, LeastOf(EmptySlots(b)), e)
        /\ (last.op = "remove_entry" /\ EmptySlots(b) = {}) =>
              /\ Cardinality(EmptySlots(d)) = 1
              /\ again.ok
              /\ \A i \in EmptySlots(d) : PutAt(d, again.val, i, e)

\* a full Directory had the entry of slot 100 removed, and the next
\* add_entry has filled the Directory again
C26_SlotReusedAfterFull ==
    /\ last.op = "add_entry"
    /\ last.res = "Ok"
    /\ EmptySlots(mark.before) = {100}
    /\ EmptySlots(mark.dir) = {}

\* the indices above the magic slot whose entry is Free
FreeIdx(fat) == {i \in FatIdx \ {0} : is_free(fat[i])}

\* the Used entries that are written into a table
UsedEntries == {new_used(s).val : s \in {FIRST_USABLE_SECTOR, FIRST_USABLE_SECTOR + 1}}

\* first_free_entry and add_entry on table fat
SlotAllocation(fat) ==
    LET r == first_free_entry(fat)
    IN  /\ r.ok <=> FreeIdx(fat) # {}
        /\ r.ok => /\ r.val \in FreeIdx(fat)
                   /\ r.val # 0
                   /\ \A j \in FreeIdx(fat) : r.val <= j
        /\ ~r.ok => r.err = "OutOfSpace"
        /\ \A e \in UsedEntries :
              LET a == FAT_add_entry(fat, e)
              IN  /\ a.ok <=> r.ok
                  /\ ~a.ok => a.err = "OutOfSpace"
                  /\ a.ok => /\ a.val[r.val] = e
                             /\ \A j \in FatIdx \ {r.val} : a.val[j] = fat[j]
                             /\ FAT_is_valid(fat) => FAT_is_valid(a.val)

\* C27: on every table the disk holds, first_free_entry returns the
\* smallest index above 0 whose entry is Free, never index 0, and OutOfSpace
\* exactly when no index above 0 is Free; add_entry writes its entry at that
\* index, changes no other slot and leaves a valid table valid.
C27_FirstFreeSlot == \A s \in Sectors : SlotAllocation(FAT_from_buffer(disk[s]))

\* a file made in the root directory has taken the last Free slot of the
\* root table
C27_RootTableFilled ==
    /\ last.op = "touch"
    /\ last.res = "Ok"
    /\ FAT_is_valid(FAT_load(disk, FIRST_USABLE_SECTOR - 1))
    /\ FreeIdx(FAT_load(disk, FIRST_USABLE_SECTOR - 1)) = {}

\* C28: for every sector number s in 0..4095, new_used(s) succeeds and
\* get_sector of the entry returns s, the entry being Used and not Free;
\* get_sector of a Free, EndOfChain or Bad entry returns UnusedSector.
C28_EntryRoundTrip ==
    /\ (last.op = "new_used" /\ mark.sector <= SECTOR_MASK) =>
          /\ mark.made.ok
          /\ is_used(mark.made.val)
          /\ ~is_free(mark.made.val)
          /\ mark.got = [ok |-> TRUE, val |-> mark.sector]
    /\ (last.op = "get_sector" /\ get_type(mark.made.val) \in {TYPE_FREE, TYPE_EOF, TYPE_BAD}) =>
          mark.got = [ok |-> FALSE, err |-> "UnusedSector"]

\* the entry built for sector 4095 has been read back
C28_LargestSectorReadBack ==
    /\ last.op = "new_used"
    /\ mark.sector = SECTOR_MASK
    /\ mark.got.ok

\* C29: the entry built for disk sector s holds s - FIRST_USABLE_SECTOR in
\* its 12-bit payload, and building it fails with BadSector exactly when
\* s - FIRST_USABLE_SECTOR is greater than 4095.
C29_PayloadBaseRelative ==
    (last.op = "new_used" /\ mark.sector >= FIRST_USABLE_SECTOR) =>
        /\ mark.made.ok <=> mark.sector - FIRST_USABLE_SECTOR <= SECTOR_MASK
        /\ ~mark.made.ok => mark.made.err = "BadSector"
        /\ mark.made.ok => mark.made.val % (SECTOR_MASK + 1) = mark.sector - FIRST_USABLE_SECTOR

\* WORKING_DIR with the segments parts below the root
WorkingDirOf(parts) ==
    IF Len(parts) = 0 THEN <<Slash>>
    ELSE IF Len(parts) = 1 THEN <<Slash>> \o parts[1] \o <<Slash>>
    ELSE <<Slash>> \o parts[1] \o <<Slash>> \o parts[2] \o <<Slash>>

\* the segments a working directory is resolved for: a Directory, a File and
\* a name that is never made
Segments == TreeDirs \cup TreeFiles \cup {<<"g">>}
SegmentLists == {<<a>> : a \in Segments} \cup {<<a, b>> : a, b \in Segments}

\* resolving parts gives what its last segment asks for in the directory
\* that the segments before it resolve to
ResolvedStep(parts) ==
    LET pre == get_current_directory(disk, WorkingDirOf(SubSeq(parts, 1, Len(parts) - 1)))
        r == get_current_directory(disk, WorkingDirOf(parts))
        name == parts[Len(parts)]
        e == Directory_get_entry(pre.val.dir, name)
        l == Directory_load(disk, e.val.first_cluster, FALSE)
    IN  IF ~pre.ok THEN r = pre
        ELSE IF ~e.ok THEN r = [ok |-> FALSE, err |-> "DirectoryNotFound"]
        ELSE IF e.val.entry_type # DIR_ENTRY_TYPE
        THEN r = [ok |-> FALSE, err |-> "DirectoryNotFound"]
        ELSE IF ~l.ok THEN r = l
        ELSE r = [ok |-> TRUE, val |-> [dir |-> l.val, lba |-> e.val.first_cluster]]

\* C30: resolving the working directory from the root, segment by segment,
\* fails with DirectoryNotFound when a segment names no entry of the
\* directory reached so far and when it names a File entry; otherwise it
\* returns the Directory of the last segment together with its LBA.
C30_PathResolutionErrors == \A parts \in SegmentLists : ResolvedStep(parts)

\* directory d has a Directory-typed entry whose stored name is name
HasDirectoryNamed(d, name) ==
    \E i \in DOMAIN d.entries : /\ ~is_empty(d.entries[i])
                                /\ to_string(d.entries[i]) = name
                                /\ d.entries[i].entry_type = DIR_ENTRY_TYPE

\* C31: search_directory(name) returns Ok(true) exactly when the current
\* directory has a Directory-typed entry with that name, Ok(false) when the
\* name is absent or names a file, and the error of resolving the current
\* directory unchanged.
C31_SearchDirectory ==
    \A n \in ProbeNames :
        LET cur == get_current_directory(disk, wd)
            r == search_directory(disk, wd, n)
        IN  IF ~cur.ok THEN r = cur
            ELSE r.ok /\ (r.val <=> HasDirectoryNamed(cur.val.dir, n))

\* C32: remove_dir_by_name(name, directory) on a name whose entry in the
\* directory is File-typed returns NotADirectory, frees no sector and
\* writes nothing.
C32_FileIsNotADirectory ==
    \A n \in ProbeNames :
        LET cur == get_current_directory(disk, wd)
            e == Directory_get_entry(cur.val.dir, n)
            r == remove_dir_by_name(disk, allocator, n, cur.val)
        IN  (cur.ok /\ e.ok /\ e.val.entry_type = FILE_ENTRY_TYPE) =>
                /\ r.res = "NotADirectory"
                /\ r.disk = disk
                /\ r.alloc = allocator

\* C33: whatever the watermark w and for the counts 1 and 9,
\* get_free_sectors(n) returns w and leaves the watermark at w + n without
\* wrapping; the watermark never decreases and no sector below
\* FIRST_USABLE_SECTOR is handed out.
C33_WatermarkMonotone ==
    last.op = "get_free_sectors" =>
        /\ mark.res = "Ok"
        /\ last.val = last.before.next_free
        /\ allocator.next_free = last.before.next_free + last.arg
        /\ allocator.next_free >= last.before.next_free
        /\ last.val >= FIRST_USABLE_SECTOR

\* the sectors of sequence q
RangeOf(q) == {q[i] : i \in DOMAIN q}

\* the data sectors the table of directory d marks Used
DataSectors(dk, d) ==
    LET fat == get_current_fat(dk, d)
    IN  {get_sector(fat[i]).val : i \in {j \in FatIdx : is_used(fat[j])}}

\* the table sector and the 8 sectors of the directory at lba
OwnSectors(d, lba) == <<d.fat_sector>> \o [i \in 1 .. DirSectors |-> lba + i - 1]

\* remove_entry(n) in working directory w, when it removes a directory T
\* and returns Ok, frees and writes in the order stated by C34
RemovalInOrder(w, n) ==
    LET cur == get_current_directory(disk, w)
        e == Directory_get_entry(cur.val.dir, n)
        tlba == e.val.first_cluster
        T == Directory_load(disk, tlba, FALSE)
        r == remove_entry(disk, allocator, w, n)
        log == remove_entry_writes(disk, allocator, w, n)
        old == Len(allocator.freed_sectors)
        new == Len(r.alloc.freed_sectors)
        pushed == SubSeq(r.alloc.freed_sectors, old + 1, new)
        early == SubSeq(pushed, 1, Len(pushed) - (DirSectors + 1))
        desc == Below(disk, T.val, tlba, DiskSectors \div 9)
    IN  (cur.ok /\ e.ok /\ e.val.entry_type = DIR_ENTRY_TYPE /\ T.ok /\ r.res = "Ok") =>
            /\ SubSeq(r.alloc.freed_sectors, 1, old) = allocator.freed_sectors
            /\ Len(pushed) >= DirSectors + 1
            /\ SubSeq(pushed, Len(pushed) - DirSectors, Len(pushed)) = OwnSectors(T.val, tlba)
            /\ DataSectors(disk, T.val) \subseteq RangeOf(early)
            /\ \A c \in desc :
                  /\ DataSectors(disk, c.dir) \subseteq RangeOf(early)
                  /\ RangeOf(OwnSectors(c.dir, c.lba)) \subseteq RangeOf(early)
            /\ \A k \in 0 .. Len(log) :
                  LET dk == Replay(disk, SubSeq(log, 1, k))
                      parent == LoadAt(dk, cur.val.lba)
                  IN  (parent.ok /\ ~Directory_get_entry(parent.val, n).ok) =>
                          ~Directory_load(dk, tlba, FALSE).ok
            /\ Directory_load(r.disk, tlba, FALSE) = [ok |-> FALSE, err |-> "InvalidDirectory"]
            /\ \A c \in desc :
                  Directory_load(r.disk, c.lba, FALSE) = [ok |-> FALSE, err |-> "InvalidDirectory"]
            /\ LET parent == LoadAt(r.disk, cur.val.lba)
               IN  parent.ok /\ ~Directory_get_entry(parent.val, n).ok

\* C34: a remove_entry that removes directory T and returns Ok pushes every
\* data sector and the sectors of every descendant directory to the
\* free-list before the table sector and the 8 sectors of T; the magic of T
\* on disk is invalid before the entry for T is cleared in the parent on
\* disk; afterwards Directory::load of the LBA of T and of every descendant
\* returns InvalidDirectory and the parent has no entry named T.
C34_RemovalOrder == \A n \in ProbeNames : RemovalInOrder(wd, n)

\* the sectors of the root directory, of the allocator and of the root table
ReservedSectors ==
    (FIRST_DIRECTORY .. (FIRST_DIRECTORY + DirSectors - 1))
        \cup {FIRST_USABLE_SECTOR - 2, FIRST_USABLE_SECTOR - 1}

\* C35: after any sequence of commands the root directory on disk has a
\* valid magic, the root table is valid, and no reserved sector is in the
\* free-list or at or above the watermark, so that get_free_sector never
\* returns one.
C35_ReservedNeverReclaimed ==
    /\ Directory_load(disk, FIRST_DIRECTORY, TRUE).ok
    /\ FAT_is_valid(FAT_load(disk, FIRST_USABLE_SECTOR - 1))
    /\ RangeOf(allocator.freed_sectors) \cap ReservedSectors = {}
    /\ allocator.next_free >= FIRST_USABLE_SECTOR

\* the File-typed entries reachable from the root whose table entry is
\* Used, each with the directory and slot that hold it and its data sector
FileRefs(dk) ==
    UNION {
        {[lba |-> D.lba, slot |-> i,
          sector |-> get_sector(get_current_fat(dk, D.dir)[D.dir.entries[i].first_cluster]).val]
         : i \in {j \in FileSlots(D.dir) :
                    /\ D.dir.entries[j].first_cluster \in FatIdx
                    /\ is_used(get_current_fat(dk, D.dir)[D.dir.entries[j].first_cluster])}}
        : D \in AllDirs(dk)}

\* the table sector and the 8 sectors of every directory reachable from the
\* root
DirectorySectors(dk) == UNION {RangeOf(OwnSectors(D.dir, D.lba)) : D \in AllDirs(dk)}

\* C36: no two File-typed entries reachable from the root resolve to the
\* same data sector, no data sector of a file is the table sector or one of
\* the 8 sectors of a reachable directory, and no sector of a reachable
\* file or directory is in the free-list.
C36_SectorExclusivity ==
    /\ \A x, y \in FileRefs(disk) : x.sector = y.sector => x = y
    /\ \A x \in FileRefs(disk) : x.sector \notin DirectorySectors(disk)
    /\ \A x \in FileRefs(disk) : x.sector \notin RangeOf(allocator.freed_sectors)
    /\ DirectorySectors(disk) \cap RangeOf(allocator.freed_sectors) = {}

\* C37: after new_entry(name) has returned Ok with the working directory at
\* the root, the root directory on disk holds the entry: list_dir lists
\* name, get_data(name) succeeds, and the root table on disk marks the slot
\* of the file Used.
C37_NewEntryVisible ==
    (last.op = "new_entry" /\ last.res = "Ok") =>
        LET e == Directory_get_entry(mark.directory, last.name)
        IN  /\ last.name \in list_dir(disk, wd).names
            /\ get_data(disk, wd, last.name).res = "Ok"
            /\ e.ok
            /\ is_used(FAT_load(disk, FIRST_USABLE_SECTOR - 1)[e.val.first_cluster])

\* C38: whenever the task list is not empty, current_task is the index of
\* the task whose state switch_context loaded last; and the task schedule
\* removes is the task that was current when remove_task was called.
C38_CurrentIsRunning ==
    /\ (task_manager.tasks # <<>> /\ mark.running # 0) =>
          TaskAt(task_manager, task_manager.current_task) = mark.running
    /\ mark.removed # 0 => mark.removed = mark.wanted

\* C39: either the task list is empty or current_task is an index of the
\* list, and the switching flag is false whenever schedule has returned.
C39_IndexInBounds ==
    /\ task_manager.tasks = <<>> \/ task_manager.current_task < Len(task_manager.tasks)
    /\ task_manager.current_task >= 0
    /\ ~task_manager.switching

\* schedule has removed a task while current_task was the last index, and
\* has put current_task back to 0: the task loaded last is in the last slot
C39_ResetAfterRemoval ==
    /\ last.op = "schedule"
    /\ mark.removed # 0
    /\ Len(task_manager.tasks) >= 2
    /\ task_manager.current_task = 0
    /\ task_manager.tasks[Len(task_manager.tasks)] = mark.running

\* where get_current_directory finds the working directory w,
\* get_parent_sector returns the LBA it found it at
SameSector(dk, w) ==
    LET cur == get_current_directory(dk, w)
        par == get_parent_sector(dk, w)
    IN  /\ cur.ok => par.ok
        /\ (par.ok /\ cur.ok) => par.val = cur.val.lba
        /\ (par.ok /\ PathParts(w) = <<>>) => par.val = FIRST_DIRECTORY

\* the directory the current directory holds under name keeps its table in
\* the sector before its own
TableBefore(dk, w, name) ==
    LET cur == get_current_directory(dk, w)
        e == Directory_get_entry(cur.val.dir, name)
        made == Directory_load(dk, e.val.first_cluster, FALSE)
    IN  (cur.ok /\ e.ok /\ made.ok) => made.val.fat_sector = e.val.first_cluster - 1

\* C40: in every state the shell reaches, get_parent_sector returns the LBA
\* get_current_directory returns for the working directory (FIRST_DIRECTORY
\* at the root), and a directory made by new_dir stores as fat_sector its
\* own LBA minus one.
C40_ParentSectorIsCurrent ==
    /\ SameSector(disk, wd)
    /\ (last.op = "mkdir" /\ last.res = "Ok") => TableBefore(disk, wd, last.name)
    /\ \A s \in SubDirs(disk) : s.dir.fat_sector = s.lba - 1

\* the shell has entered a directory below the root through cd and has
\* just made a directory there: both walks end at the sector of the
\* directory entered, and the new directory is found below it
C40_MadeBelowRoot ==
    /\ Len(PathParts(wd)) = 1
    /\ last.op = "mkdir" /\ last.res = "Ok"
    /\ get_current_directory(disk, wd).ok
    /\ get_parent_sector(disk, wd).ok
    /\ get_parent_sector(disk, wd).val > FIRST_USABLE_SECTOR
    /\ \E s \in SubDirs(disk) : s.parent = get_parent_sector(disk, wd).val

====
